---- MODULE Spec2Model ----
(***************************************************************************)
(* A model of gres, a PostgreSQL wire-protocol (v3) client.                *)
(*                                                                         *)
(*   - gres-protocol/src/messages/server.rs : the framer (take_msg) and    *)
(*     the backend-message decoder (ServerMsg::from_slice), on bytes;      *)
(*   - src/message.rs : the frontend-message encoder (Message::to_bytes);  *)
(*   - src/connection.rs : the session (Connection::new, simple_query,     *)
(*     prepare, QueryHandle::bind, Drop for Connection).                   *)
(*                                                                         *)
(* Bytes are the integers 0..255, a buffer is a sequence of bytes.  The    *)
(* socket is two byte streams: `sent` (client to server, kept as the list  *)
(* of frames written) and `wire` (server to client, the bytes the server   *)
(* has written and the client has not read yet).  A read hands the client  *)
(* any non-empty prefix of `wire`.                                         *)
(***************************************************************************)
EXTENDS Integers, Sequences, FiniteSets, TLC

(***************************************************************************)
(* Bounds of the model.                                                    *)
(***************************************************************************)
\* Requests (simple_query, prepare, bind) a caller issues on one connection.
MaxRequests == 2

(***************************************************************************)
(* Byte primitives.                                                        *)
(***************************************************************************)
\* Rust's input[a..b] on a 0-indexed slice; defined when a <= b <= Len(s).
Slice(s, a, b) == SubSeq(s, a + 1, b)

\* Rust's input[a..].
SliceFrom(s, a) == SubSeq(s, a + 1, Len(s))

InRange(s, a, b) == a <= b /\ b <= Len(s)

\* u32::from_be_bytes.  The model's integers are 32-bit signed, so a value from
\* 2^31 up (first byte >= 128) is represented by 2^31 - 2: every use compares it
\* with a buffer length or with a code below 256, where the two agree.
slice_to_u32(input) ==
    IF input[1] >= 128 THEN 2147483646
    ELSE ((input[1] * 256 + input[2]) * 256 + input[3]) * 256 + input[4]

slice_to_u16(input) == input[1] * 256 + input[2]

\* u32::to_be_bytes
u32_to_be_bytes(n) ==
    << (n \div 16777216) % 256, (n \div 65536) % 256, (n \div 256) % 256, n % 256 >>

\* Index (0-based) of the first element equal to `matched`, or -1 for None.
RECURSIVE FindFrom(_, _, _)
FindFrom(input, matched, i) ==
    IF i > Len(input) THEN -1
    ELSE IF input[i] = matched THEN i - 1
    ELSE FindFrom(input, matched, i + 1)

find_first(input, matched) == FindFrom(input, matched, 1)

\* core::str::from_utf8 as a validity test (the bytes are kept as they are).
Cont(b) == b >= 128 /\ b <= 191

RECURSIVE Utf8From(_, _)
Utf8From(s, i) ==
    IF i > Len(s) THEN TRUE
    ELSE LET b == s[i]
             has(k) == i + k <= Len(s)
         IN  IF b < 128 THEN Utf8From(s, i + 1)
             ELSE IF b >= 194 /\ b <= 223
                  THEN has(1) /\ Cont(s[i + 1]) /\ Utf8From(s, i + 2)
             ELSE IF b >= 224 /\ b <= 239
                  THEN /\ has(2)
                       /\ Cont(s[i + 1]) /\ Cont(s[i + 2])
                       /\ (b = 224 => s[i + 1] >= 160)
                       /\ (b = 237 => s[i + 1] <= 159)
                       /\ Utf8From(s, i + 3)
             ELSE IF b >= 240 /\ b <= 244
                  THEN /\ has(3)
                       /\ Cont(s[i + 1]) /\ Cont(s[i + 2]) /\ Cont(s[i + 3])
                       /\ (b = 240 => s[i + 1] >= 144)
                       /\ (b = 244 => s[i + 1] <= 143)
                       /\ Utf8From(s, i + 4)
             ELSE FALSE

from_utf8_ok(s) == Utf8From(s, 1)

(***************************************************************************)
(* The framer.                                                             *)
(***************************************************************************)
\* take_msg, with length the frame length read from bytes 1..5:
\* res = "ok" with (frame, rest), or res = "err" with the text of its
\* ProtocolError::Error.
\* A framer that hands out everything it was given as one frame.
take_msg_split_greedy(input, length) ==
    IF Len(input) < length
    THEN [res |-> "err", frame |-> <<>>, rest |-> <<>>,
          text |-> "Message too short"]
    ELSE [res |-> "ok", frame |-> input, rest |-> <<>>, text |-> ""]

take_msg_split(input, length) ==
    IF Len(input) < length
    THEN [res |-> "err", frame |-> <<>>, rest |-> <<>>,
          text |-> "Message too short"]
    ELSE [res   |-> "ok",
          frame |-> Slice(input, 0, length),
          rest  |-> SliceFrom(input, length),
          text  |-> ""]

\* A framer that takes the length field for the length of the whole frame.
take_msg_length_with_id(input) ==
    IF Len(input) < 5
    THEN [res |-> "err", frame |-> <<>>, rest |-> <<>>,
          text |-> "Input too short"]
    ELSE take_msg_split(input, slice_to_u32(Slice(input, 1, 5)))

take_msg(input) ==
    IF Len(input) < 5
    THEN [res |-> "err", frame |-> <<>>, rest |-> <<>>,
          text |-> "Input too short"]
    ELSE take_msg_split(input, 1 + slice_to_u32(Slice(input, 1, 5)))

(***************************************************************************)
(* Decoded values.  Every decoder returns a record with res = "ok", "err"  *)
(* (an Err(ProtocolError) value, its variant in err) or "panic" (an unwrap *)
(* of None/Err, an expect, or an index out of range).                      *)
(***************************************************************************)
NoPosition == [kind |-> "None", position |-> 0, query |-> <<>>]

NoText == [some |-> FALSE, v |-> <<>>]

SomeText(v) == [some |-> TRUE, v |-> v]

NoNotice ==
    [severity_loc |-> <<>>, severity |-> "None", code |-> <<>>, message |-> <<>>,
     detail |-> NoText, hint |-> NoText, position |-> NoPosition, more |-> <<>>]

Blank ==
    [res |-> "ok", kind |-> "", err |-> "", auth |-> "", data |-> <<>>,
     name |-> <<>>, value |-> <<>>, fields |-> <<>>, cols |-> <<>>,
     pid |-> 0, key |-> 0, notice |-> NoNotice]

Decoded(kind) == [Blank EXCEPT !.kind = kind]

Failed(e) == [Blank EXCEPT !.res = "err", !.err = e]

Panicked == [Blank EXCEPT !.res = "panic"]

\* erg::take_cstring_plus_fixed, with strlen the index find_first gave
\* (-1 for None).
cstring_plus_fixed_at(input, fixed, strlen) ==
    IF strlen = -1
    THEN [res |-> "err", err |-> "Error", str |-> <<>>, fixed |-> <<>>, extra |-> <<>>]
    ELSE IF ~from_utf8_ok(Slice(input, 0, strlen))
    THEN [res |-> "err", err |-> "Utf8", str |-> <<>>, fixed |-> <<>>, extra |-> <<>>]
    ELSE IF ~InRange(input, strlen + 1, strlen + 1 + fixed)
    THEN [res |-> "panic", err |-> "", str |-> <<>>, fixed |-> <<>>, extra |-> <<>>]
    ELSE [res   |-> "ok", err |-> "",
          str   |-> Slice(input, 0, strlen),
          fixed |-> Slice(input, strlen + 1, strlen + 1 + fixed),
          extra |-> SliceFrom(input, strlen + 1 + fixed)]

take_cstring_plus_fixed(input, fixed) ==
    cstring_plus_fixed_at(input, fixed, find_first(input, 0))

\* erg::take_sized_string, with size the length read from the first 4 bytes.
sized_string_of(input, size) ==
    IF size > Len(input) - 4
    THEN [res |-> "panic", err |-> "", str |-> <<>>, extra |-> <<>>]
    ELSE IF ~from_utf8_ok(Slice(input, 4, 4 + size))
    THEN [res |-> "err", err |-> "Utf8", str |-> <<>>, extra |-> <<>>]
    ELSE [res |-> "ok", err |-> "",
          str |-> Slice(input, 4, 4 + size),
          extra |-> SliceFrom(input, 4 + size)]

take_sized_string(input) ==
    IF Len(input) < 4
    THEN [res |-> "panic", err |-> "", str |-> <<>>, extra |-> <<>>]
    ELSE sized_string_of(input, slice_to_u32(Slice(input, 0, 4)))

\* The match of FieldDescription::new on the format code.
field_format(code) ==
    IF code = 0 THEN [res |-> "ok", format |-> "Text"]
    ELSE IF code = 1 THEN [res |-> "ok", format |-> "Binary"]
    ELSE [res |-> "err", format |-> ""]

\* FieldDescription::new, on the 18 fixed bytes that follow the name.
FieldDescription_new(name, fixed_data) ==
    field_format(slice_to_u16(Slice(fixed_data, 16, 18)))

\* The loop of the "T" arm: count fields, each take_field(..).unwrap() and
\* FieldDescription::new(..).unwrap().
RECURSIVE TakeFields(_, _, _)
TakeFieldsNew(t, fd, count, acc) ==
    IF fd.res # "ok" THEN [res |-> "panic", fields |-> acc, extra |-> t.extra]
    ELSE TakeFields(t.extra, count - 1,
                    Append(acc, [name |-> t.str, format |-> fd.format]))

TakeFieldsTaken(t, count, acc) ==
    IF t.res # "ok" THEN [res |-> "panic", fields |-> acc, extra |-> <<>>]
    ELSE TakeFieldsNew(t, FieldDescription_new(t.str, t.fixed), count, acc)

TakeFields(extra, count, acc) ==
    IF count = 0 THEN [res |-> "ok", fields |-> acc, extra |-> extra]
    ELSE TakeFieldsTaken(take_cstring_plus_fixed(extra, 18), count, acc)

\* The loop of the "D" arm: count columns, each take_sized_string(..).unwrap().
RECURSIVE TakeColumns(_, _, _)
TakeColumnsTaken(t, count, acc) ==
    IF t.res # "ok" THEN [res |-> "panic", cols |-> acc, extra |-> <<>>]
    ELSE TakeColumns(t.extra, count - 1, Append(acc, t.str))

TakeColumns(extra, count, acc) ==
    IF count = 0 THEN [res |-> "ok", cols |-> acc, extra |-> extra]
    ELSE TakeColumnsTaken(take_sized_string(extra), count, acc)

\* The match of AuthMsg::from_slice on the code read from the first 4 bytes.
auth_of_code(extra, code) ==
    CASE code = 0 -> [Decoded("Auth") EXCEPT !.auth = "Ok"]
      [] code = 2 -> [Decoded("Auth") EXCEPT !.auth = "Kerberos"]
      [] code = 3 -> [Decoded("Auth") EXCEPT !.auth = "Cleartext"]
      [] code = 5 -> IF ~InRange(extra, 4, 8) THEN Panicked
                     ELSE [Decoded("Auth") EXCEPT !.auth = "Md5",
                                                  !.data = Slice(extra, 4, 8)]
      [] code = 6 -> [Decoded("Auth") EXCEPT !.auth = "ScmCredential"]
      [] code = 7 -> [Decoded("Auth") EXCEPT !.auth = "Gss"]
      [] code = 8 -> IF ~InRange(extra, 4, 8) THEN Panicked
                     ELSE [Decoded("Auth") EXCEPT !.auth = "GssContinue",
                                                  !.data = Slice(extra, 4, 8)]
      [] code = 9 -> [Decoded("Auth") EXCEPT !.auth = "Sspi"]
      [] code \in {1, 4} \/ (code >= 10 /\ code <= 255) ->
                     [Decoded("Auth") EXCEPT !.auth = "Unknown"]
      [] OTHER -> Failed("Other")

\* AuthMsg::from_slice
AuthMsg_from_slice(extra) ==
    IF ~InRange(extra, 0, 4) THEN Panicked
    ELSE auth_of_code(extra, slice_to_u32(Slice(extra, 0, 4)))

(***************************************************************************)
(* The notice/error body.                                                  *)
(***************************************************************************)
\* The field tags NoticeBody::from_bytes keeps in `parts`: S V C M D H P p q.
KnownTags == {83, 86, 67, 77, 68, 72, 80, 112, 113}

\* The `while bytes.get(0) != Some(&0)` loop, entered with bytes non-empty:
\* the (tag, value) pairs in wire order.
RECURSIVE NoticeFields(_, _)
NoticeFieldTaken(tag, t, acc) ==
    IF t.res # "ok" THEN [res |-> "panic", err |-> "", pairs |-> acc]
    ELSE IF t.extra = <<>> THEN [res |-> "err", err |-> "Error", pairs |-> acc]
    ELSE NoticeFields(t.extra, Append(acc, <<tag, t.str>>))

NoticeFields(bytes, acc) ==
    IF bytes[1] = 0 THEN [res |-> "ok", err |-> "", pairs |-> acc]
    ELSE NoticeFieldTaken(bytes[1], take_cstring_plus_fixed(SliceFrom(bytes, 1), 0), acc)

\* parts.get(&tag) of the HashMap the loop fills: the last value inserted.
HasPart(pairs, tag) == \E i \in 1..Len(pairs) : pairs[i][1] = tag

Part(pairs, tag) ==
    pairs[CHOOSE i \in 1..Len(pairs) :
             /\ pairs[i][1] = tag
             /\ \A j \in (i + 1)..Len(pairs) : pairs[j][1] # tag][2]

OptPart(pairs, tag) == IF HasPart(pairs, tag) THEN SomeText(Part(pairs, tag)) ELSE NoText

RECURSIVE MorePairs(_)
MorePairs(pairs) ==
    IF pairs = <<>> THEN <<>>
    ELSE IF Head(pairs)[1] \in KnownTags THEN MorePairs(Tail(pairs))
    ELSE <<Head(pairs)>> \o MorePairs(Tail(pairs))

\* str::parse::<usize>: an optional '+', then one or more decimal digits.
IsDigits(s) == s # <<>> /\ \A i \in 1..Len(s) : s[i] >= 48 /\ s[i] <= 57

RECURSIVE DigitsValue(_)
DigitsValue(s) ==
    IF s = <<>> THEN 0
    ELSE 10 * DigitsValue(SubSeq(s, 1, Len(s) - 1)) + (s[Len(s)] - 48)

\* The value is exact up to 9 digits; a longer one that fits a usize is
\* represented by 2^31 - 2, and 20 digits or more are taken to overflow.
parse_digits(digits) ==
    IF IsDigits(digits) /\ Len(digits) <= 9
    THEN [res |-> "ok", n |-> DigitsValue(digits)]
    ELSE IF IsDigits(digits) /\ Len(digits) <= 19
    THEN [res |-> "ok", n |-> 2147483646]
    ELSE [res |-> "err", n |-> 0]

parse_usize(s) == parse_digits(IF s # <<>> /\ s[1] = 43 THEN Tail(s) ELSE s)

\* Severity::new
Severity_new(s) ==
    CASE s = <<69, 82, 82, 79, 82>> -> "Error"
      [] s = <<70, 65, 84, 65, 76>> -> "Fatal"
      [] s = <<80, 65, 78, 73, 67>> -> "Panic"
      [] s = <<87, 65, 82, 78, 73, 78, 71>> -> "Warning"
      [] s = <<78, 79, 84, 73, 67, 69>> -> "Notice"
      [] s = <<68, 69, 66, 85, 71>> -> "Debug"
      [] s = <<73, 78, 70, 79>> -> "Info"
      [] s = <<76, 79, 71>> -> "Log"
      [] OTHER -> "None"

\* Lines 367-376 of NoticeBody::from_bytes: the position, from P, else from
\* p and q; res = "err" when the decimal does not parse.
position_public(n) ==
    [res |-> n.res, position |-> [kind |-> "Public", position |-> n.n, query |-> <<>>]]

position_internal(n, query) ==
    [res |-> n.res, position |-> [kind |-> "Internal", position |-> n.n, query |-> query]]

notice_position(parts) ==
    IF HasPart(parts, 80) THEN position_public(parse_usize(Part(parts, 80)))
    ELSE IF HasPart(parts, 112)
    THEN position_internal(parse_usize(Part(parts, 112)),
                           IF HasPart(parts, 113) THEN Part(parts, 113) ELSE <<>>)
    ELSE [res |-> "ok", position |-> NoPosition]

\* Lines 378-387: the struct, whose parts[&'S'], parts[&'C'] and parts[&'M']
\* index the map.
notice_struct(parts, position) ==
    IF position.res # "ok" THEN [res |-> "err", err |-> "ParseInt", notice |-> NoNotice]
    ELSE IF ~HasPart(parts, 83) \/ ~HasPart(parts, 67) \/ ~HasPart(parts, 77)
    THEN [res |-> "panic", err |-> "", notice |-> NoNotice]
    ELSE [res |-> "ok", err |-> "",
          notice |->
            [severity_loc |-> Part(parts, 83),
             severity |-> IF HasPart(parts, 86)
                          THEN Severity_new(Part(parts, 86)) ELSE "None",
             code |-> Part(parts, 67),
             message |-> Part(parts, 77),
             detail |-> OptPart(parts, 68),
             hint |-> OptPart(parts, 72),
             position |-> position.position,
             more |-> MorePairs(parts)]]

notice_of_fields(f) ==
    IF f.res # "ok" THEN [res |-> f.res, err |-> f.err, notice |-> NoNotice]
    ELSE notice_struct(f.pairs, notice_position(f.pairs))

\* NoticeBody::from_bytes: res, err and the body.
NoticeBody_from_bytes(bytes) ==
    IF bytes = <<>> THEN [res |-> "err", err |-> "Error", notice |-> NoNotice]
    ELSE notice_of_fields(NoticeFields(bytes, <<>>))

(***************************************************************************)
(* The backend-message decoder.                                            *)
(***************************************************************************)
\* The pieces `extra.split(|c| c == &0)` yields.
RECURSIVE SplitNul(_, _, _)
SplitNul(s, cur, acc) ==
    IF s = <<>> THEN Append(acc, cur)
    ELSE IF Head(s) = 0 THEN SplitNul(Tail(s), <<>>, Append(acc, cur))
    ELSE SplitNul(Tail(s), Append(cur, Head(s)), acc)

Bodiless(kind, extra) == IF extra = <<>> THEN Decoded(kind) ELSE Failed("Error")

notice_msg(kind, n) ==
    IF n.res = "ok" THEN [Decoded(kind) EXCEPT !.notice = n.notice]
    ELSE IF n.res = "err" THEN Failed(n.err)
    ELSE Panicked

\* The "S" arm, on the pieces of the body.
param_status(pieces) ==
    IF ~from_utf8_ok(pieces[1]) THEN Failed("Utf8")
    ELSE IF Len(pieces) < 2 THEN Panicked
    ELSE IF ~from_utf8_ok(pieces[2]) THEN Failed("Utf8")
    ELSE IF Len(pieces) < 3 THEN Panicked
    ELSE IF pieces[3] # <<>> THEN Failed("Error")
    ELSE [Decoded("ParamStatus") EXCEPT !.name = pieces[1], !.value = pieces[2]]

\* The "K" arm.
backend_key_data(extra) ==
    IF ~InRange(extra, 0, 4) \/ Len(extra) - 4 # 4 THEN Panicked
    ELSE [Decoded("BackendKeyData") EXCEPT
            !.pid = slice_to_u32(Slice(extra, 0, 4)),
            !.key = slice_to_u32(SliceFrom(extra, 4))]

\* The end of the "T", "D" and "C" arms, on what their loops returned.
row_description(t) ==
    IF t.res # "ok" THEN Panicked
    ELSE IF t.extra # <<>> THEN Failed("Error")
    ELSE [Decoded("RowDescription") EXCEPT !.fields = t.fields]

data_row(t) ==
    IF t.res # "ok" THEN Panicked
    ELSE IF t.extra # <<>> THEN Failed("Error")
    ELSE [Decoded("DataRow") EXCEPT !.cols = t.cols]

command_complete(t) ==
    IF t.res # "ok" THEN Panicked
    ELSE IF t.extra # <<>> THEN Failed("Error")
    ELSE [Decoded("CommandComplete") EXCEPT !.value = t.str]

\* The match of ServerMsg::from_slice on the identifier.
from_slice_match(identifier, extra) ==
    CASE identifier = 73 (* "I" *) -> Bodiless("ParseComplete", extra)
      [] identifier = 82 (* "R" *) -> AuthMsg_from_slice(extra)
      [] identifier = 83 (* "S" *) -> param_status(SplitNul(extra, <<>>, <<>>))
      [] identifier = 75 (* "K" *) -> backend_key_data(extra)
      [] identifier = 84 (* "T" *) ->
            IF ~InRange(extra, 0, 2) THEN Panicked
            ELSE row_description(TakeFields(SliceFrom(extra, 2),
                                            slice_to_u16(Slice(extra, 0, 2)), <<>>))
      [] identifier = 68 (* "D" *) ->
            IF ~InRange(extra, 0, 2) THEN Panicked
            ELSE data_row(TakeColumns(SliceFrom(extra, 2),
                                      slice_to_u16(Slice(extra, 0, 2)), <<>>))
      [] identifier = 67 (* "C" *) -> command_complete(take_cstring_plus_fixed(extra, 0))
      [] identifier = 90 (* "Z" *) -> Decoded("ReadyForQuery")
      [] identifier = 78 (* "N" *) ->
            notice_msg("NoticeResponse", NoticeBody_from_bytes(extra))
      [] identifier = 69 (* "E" *) ->
            notice_msg("ErrorResponse", NoticeBody_from_bytes(extra))
      [] identifier = 49 (* "1" *) -> Bodiless("ParseComplete", extra)
      [] identifier = 50 (* "2" *) -> Bodiless("BindComplete", extra)
      [] identifier = 51 (* "3" *) -> Bodiless("CloseComplete", extra)
      [] OTHER -> [Decoded("Unknown") EXCEPT !.data = extra, !.name = <<identifier>>]

\* ServerMsg::from_slice
from_slice(message) ==
    IF ~InRange(message, 1, 5) THEN Panicked
    ELSE IF Len(message) # 1 + slice_to_u32(Slice(message, 1, 5)) THEN Failed("Error")
    ELSE IF ~from_utf8_ok(Slice(message, 0, 1)) THEN Failed("Utf8")
    ELSE from_slice_match(message[1], SliceFrom(message, 5))

(***************************************************************************)
(* The frontend-message encoder.                                           *)
(***************************************************************************)
\* An encoder whose length field counts the body alone.
to_bytes_length_of_body(id, body) ==
    (IF id = -1 THEN <<>> ELSE <<id>>) \o u32_to_be_bytes(Len(body)) \o body

\* Message::to_bytes; id = -1 stands for None.
to_bytes(id, body) ==
    (IF id = -1 THEN <<>> ELSE <<id>>) \o u32_to_be_bytes(Len(body) + 4) \o body

\* A string written without its terminator.
write_string_unterminated(s) == s

write_string(s) == s \o <<0>>

RECURSIVE WritePairs(_)
WritePairs(params) ==
    IF params = <<>> THEN <<>>
    ELSE write_string(Head(params)[1]) \o write_string(Head(params)[2])
         \o WritePairs(Tail(params))

\* A startup message that names the database even when none is given.
StartupMessage_database_always(user, database, params) ==
    to_bytes(-1,
        <<0, 3, 0, 0>>
        \o write_string(<<117, 115, 101, 114>>) \o write_string(user)
        \o write_string(<<100, 97, 116, 97, 98, 97, 115, 101>>)
        \o write_string(database.v)
        \o WritePairs(params)
        \o <<0>>)

\* impl Message for StartupMessage; database is an Option.
StartupMessage(user, database, params) ==
    to_bytes(-1,
        <<0, 3, 0, 0>>
        \o write_string(<<117, 115, 101, 114>>) \o write_string(user)
        \o (IF database.some
            THEN write_string(<<100, 97, 116, 97, 98, 97, 115, 101>>)
                 \o write_string(database.v)
            ELSE <<>>)
        \o WritePairs(params)
        \o <<0>>)

PasswordMessage(hash) == to_bytes(112, write_string(hash))

Terminate == to_bytes(88, <<>>)

Query(query) == to_bytes(81, write_string(query))

\* u16::to_be_bytes of a length (`len() as u16`).
u16_to_be_bytes(n) == <<(n \div 256) % 256, n % 256>>

\* The loops writing param_types (i32, here non-negative) and format codes
\* (Format::Text = 0, Format::Binary = 1).
RECURSIVE WriteTypes(_)
WriteTypes(param_types) ==
    IF param_types = <<>> THEN <<>>
    ELSE u32_to_be_bytes(Head(param_types)) \o WriteTypes(Tail(param_types))

RECURSIVE WriteCodes(_)
WriteCodes(codes) ==
    IF codes = <<>> THEN <<>>
    ELSE u16_to_be_bytes(Head(codes)) \o WriteCodes(Tail(codes))

\* impl Message for ParseMessage
ParseMessage(name, sql, param_types) ==
    to_bytes(80,
        write_string(name) \o write_string(sql)
        \o u16_to_be_bytes(Len(param_types)) \o WriteTypes(param_types))

RECURSIVE WriteValues(_)
WriteValues(values) ==
    IF values = <<>> THEN <<>>
    ELSE u32_to_be_bytes(Len(Head(values))) \o Head(values) \o WriteValues(Tail(values))

\* impl Message for BindMessage
BindMessage(portal, prepared_statement, param_format_codes, param_values, result_format_codes) ==
    to_bytes(66,
        write_string(portal) \o write_string(prepared_statement)
        \o u16_to_be_bytes(Len(param_format_codes)) \o WriteCodes(param_format_codes)
        \o u16_to_be_bytes(Len(param_values)) \o WriteValues(param_values)
        \o u16_to_be_bytes(Len(result_format_codes))
        \o WriteCodes(result_format_codes))

\* impl Message for ExecuteMessage
ExecuteMessage(portal, max_rows) ==
    to_bytes(69, write_string(portal) \o u32_to_be_bytes(max_rows))

\* impl Message for CloseMessage; close_type is 'S' or 'P'.
CloseMessage(close_type, name) == to_bytes(67, <<close_type>> \o write_string(name))

SyncMessage == to_bytes(83, <<>>)

\* u32::to_string
RECURSIVE to_string(_)
to_string(n) ==
    IF n < 10 THEN <<48 + n>>
    ELSE to_string(n \div 10) \o <<48 + (n % 10)>>

(***************************************************************************)
(* MD5 authentication (auth::build_md5_hash).  The RFC 1321 digest is not  *)
(* computed here: md5 is a 16-byte stand-in that depends on every input    *)
(* byte and its position.  The composition around it is the documented one.*)
(***************************************************************************)
RECURSIVE WeightedSum(_, _)
WeightedSum(bytes, i) ==
    IF bytes = <<>> THEN 0
    ELSE (Head(bytes) * ((i % 7) + 1) + WeightedSum(Tail(bytes), i + 1)) % 65536

md5(bytes) == [i \in 1..16 |-> (WeightedSum(bytes, i) + 31 * i + Len(bytes)) % 256]

HexDigit(n) == IF n < 10 THEN 48 + n ELSE 87 + n

RECURSIVE hex(_)
hex(bytes) ==
    IF bytes = <<>> THEN <<>>
    ELSE <<HexDigit(Head(bytes) \div 16), HexDigit(Head(bytes) % 16)>> \o hex(Tail(bytes))

build_md5_hash(user, password, salt) ==
    <<109, 100, 53>> \o hex(md5(hex(md5(password \o user)) \o salt))

(***************************************************************************)
(* The server side of the socket: the frames a PostgreSQL backend writes.  *)
(***************************************************************************)
\* How many MD5 challenges the backend issues at most in one startup.
MaxChallenges == 2

ServerFrame(id, body) == <<id>> \o u32_to_be_bytes(Len(body) + 4) \o body

AuthOkFrame == ServerFrame(82, <<0, 0, 0, 0>>)

AuthMd5Frame == ServerFrame(82, <<0, 0, 0, 5, 1, 2, 3, 4>>)

\* Authentication requests other than Ok and MD5: cleartext password (3),
\* and Kerberos V5 (2), SCM credential (6), GSS (7), GSS continue (8, with
\* data), SSPI (9) and a code with no meaning (1).
AuthCleartextFrame == ServerFrame(82, <<0, 0, 0, 3>>)

AuthOtherFrames ==
    { ServerFrame(82, <<0, 0, 0, 2>>),
      ServerFrame(82, <<0, 0, 0, 6>>),
      ServerFrame(82, <<0, 0, 0, 7>>),
      ServerFrame(82, <<0, 0, 0, 8, 5, 6, 7, 8>>),
      ServerFrame(82, <<0, 0, 0, 9>>),
      ServerFrame(82, <<0, 0, 0, 1>>) }

\* ParameterStatus("a", "b")
ParamStatusFrame == ServerFrame(83, <<97, 0, 98, 0>>)

BackendKeyDataFrame == ServerFrame(75, <<0, 0, 0, 7, 0, 0, 0, 9>>)

\* ReadyForQuery('I')
ReadyFrame == ServerFrame(90, <<73>>)

\* Fields S "E", C "4", M "m", then the zero terminator.
NoticeBytes == <<83, 69, 0, 67, 52, 0, 77, 109, 0, 0>>

ErrorFrame == ServerFrame(69, NoticeBytes)

NoticeFrame == ServerFrame(78, NoticeBytes)

\* RowDescription with no field, DataRow with the one column "x",
\* CommandComplete("S").
RowDescriptionFrame == ServerFrame(84, <<0, 0>>)

DataRowFrame == ServerFrame(68, <<0, 1, 0, 0, 0, 1, 120>>)

CommandCompleteFrame == ServerFrame(67, <<83, 0>>)

ParseCompleteFrame == ServerFrame(49, <<>>)

BindCompleteFrame == ServerFrame(50, <<>>)

CloseCompleteFrame == ServerFrame(51, <<>>)

\* What the backend may answer to the StartupMessage; ErrorFrame is fatal.
\* The fourth has a notice follow the ReadyForQuery; the last ones ask for an
\* authentication other than MD5.
StartupReplies ==
    { AuthOkFrame \o ParamStatusFrame \o BackendKeyDataFrame \o ReadyFrame,
      AuthOkFrame \o NoticeFrame \o ReadyFrame,
      NoticeFrame \o AuthOkFrame \o ReadyFrame,
      AuthOkFrame \o ReadyFrame \o NoticeFrame,
      AuthMd5Frame,
      ErrorFrame,
      AuthCleartextFrame }
    \cup AuthOtherFrames
    \cup { f \o AuthOkFrame \o ReadyFrame : f \in AuthOtherFrames }

\* What it may answer to a PasswordMessage, `challenged` the challenges so
\* far: acceptance, a fatal error, or one more challenge.
PasswordReplies(challenged) ==
    { AuthOkFrame \o BackendKeyDataFrame \o ReadyFrame,
      ErrorFrame }
    \cup (IF challenged < MaxChallenges THEN {AuthMd5Frame} ELSE {})

\* What it may answer to a Query.
QueryReplies ==
    { RowDescriptionFrame \o DataRowFrame \o CommandCompleteFrame \o ReadyFrame,
      ErrorFrame \o ReadyFrame,
      NoticeFrame \o CommandCompleteFrame \o ReadyFrame,
      ParamStatusFrame \o CommandCompleteFrame \o ReadyFrame }

\* What it may answer to a Parse, and to a Bind.
ParseReplies == { ParseCompleteFrame, ErrorFrame }

BindReplies == { BindCompleteFrame }

\* What it may answer to a Close.
CloseReplies == { CloseCompleteFrame, ErrorFrame }

(***************************************************************************)
(* The session: struct Connection and the caller's position in its code.   *)
(***************************************************************************)
VARIABLES
    state,          \* Connection.state
    password,       \* Connection.password (an Option)
    query_number,   \* Connection.query_number
    sent,           \* the frames written to the socket, in order
    wire,           \* bytes the server has written and the client has not read
    server,         \* "open" or "closed": whether the backend still listens
    served,         \* how many frames of `sent` the backend has reacted to
    pc,             \* where the caller is in the connection's code
    message_queue,  \* handle_startup's VecDeque of decoded messages
    remainder,      \* simple_query's unparsed part of its buffer
    data,           \* simple_query's rows so far
    handles,        \* names of the QueryHandles the caller holds
    result,         \* what the last operation returned
    requests,       \* requests issued so far
    entry,          \* history: state and Len(sent) when the operation began
    seen,           \* history: kinds of the messages the operation dispatched
    awaiting,       \* history: a request was written, no ReadyForQuery since
    eof_polls,      \* parity of read_from_socket's passes that met end of file
    call            \* a protocol function applied on its own (none in a session)

vars ==
    << state, password, query_number, sent, wire, server, served, pc,
       message_queue, remainder, data, handles, result, requests,
       entry, seen, awaiting, eof_polls, call >>

\* Connection.user; Connection.database is the user when none is given.
user == <<117>>

database == user

\* One use of a function of the protocol layer outside any session: the
\* function, the frontend message or the frames it starts from, the bytes it
\* is given, the bytes not consumed yet, the frames taken and the message
\* decoded so far, and how far the use has come.
NoCall ==
    [fn |-> "none", msg |-> [type |-> "none"], given |-> <<>>, input |-> <<>>,
     rest |-> <<>>, frames |-> <<>>, decoded |-> Blank, stage |-> "none"]

NoResult ==
    [op |-> "none", res |-> "none", err |-> "", text |-> "", at |-> "",
     msg |-> <<>>, rows |-> <<>>]

Returned(op, res) == [NoResult EXCEPT !.op = op, !.res = res]

\* Err(PgError::<err>(..)) returned while handling a message of kind `at`.
Error(op, err, text, at) ==
    [NoResult EXCEPT !.op = op, !.res = "Err", !.err = err, !.text = text, !.at = at]

Init ==
    /\ state = "New"
    /\ password \in {NoText, SomeText(<<112>>)}
    /\ query_number = 0
    /\ sent = <<>>
    /\ wire = <<>>
    /\ server = "open"
    /\ served = 0
    /\ pc = "new"
    /\ message_queue = <<>>
    /\ remainder = <<>>
    /\ data = <<>>
    /\ handles = <<>>
    /\ result = NoResult
    /\ requests = 0
    /\ entry = [state |-> "New", sent |-> 0]
    /\ seen = <<>>
    /\ awaiting = FALSE
    /\ eof_polls = 0
    /\ call = NoCall

(***************************************************************************)
(* The backend.                                                            *)
(***************************************************************************)
RepliesTo(frame, first) ==
    IF first THEN StartupReplies
    ELSE CASE frame[1] = 112 -> PasswordReplies(served)
           [] frame[1] = 81  -> QueryReplies
           [] frame[1] = 80  -> ParseReplies
           [] frame[1] = 66  -> BindReplies
           [] frame[1] = 67  -> CloseReplies
           [] OTHER          -> {<<>>}

\* The backend reads the next frame the client wrote and writes its answer.
\* It stops listening after a fatal error during startup and after Terminate.
ServerReact ==
    /\ server = "open"
    /\ served < Len(sent)
    /\ LET frame == sent[served + 1]
           first == served = 0
       IN  \E reply \in RepliesTo(frame, first) :
              /\ wire' = wire \o reply
              /\ server' = IF \/ (first \/ frame[1] = 112) /\ reply = ErrorFrame
                              \/ ~first /\ frame[1] = 88
                           THEN "closed" ELSE "open"
    /\ served' = served + 1
    /\ UNCHANGED << call, state, password, query_number, sent, pc, message_queue,
                    remainder, data, handles, result, requests, entry, seen,
                    awaiting, eof_polls >>

\* The peer closes the socket, at any moment after the client's first frame.
ServerClose ==
    /\ server = "open"
    /\ sent # <<>>
    /\ server' = "closed"
    /\ UNCHANGED << call, state, password, query_number, sent, wire, served, pc,
                    message_queue, remainder, data, handles, result, requests,
                    entry, seen, awaiting, eof_polls >>

\* send_message: write_all may fail (Err(Io)) once the peer has closed.
WriteFails == IF server = "closed" THEN {FALSE, TRUE} ELSE {FALSE}

(***************************************************************************)
(* Connection::new: initiate_connection, handle_startup and its handlers.  *)
(***************************************************************************)
\* A handler's effect: the new state, the frames it sends, and Ok or Err.
Handled(st) ==
    [state |-> st, out |-> <<>>, res |-> "Ok", err |-> "", text |-> "",
     msg |-> <<>>, popped |-> TRUE]

HandlerError(st, text) ==
    [Handled(st) EXCEPT !.res = "Err", !.err = "Error", !.text = text]

\* handle_error: Err(PgError::Error(err.message()))
handle_error(st, notice) ==
    [HandlerError(st, "ServerMessage") EXCEPT !.msg = notice.message]

\* handle_auth_error
handle_auth_error(st, notice) == handle_error("AuthenticationRejected", notice)

\* handle_auth with the MD5 challenge taken for an acceptance.
handle_auth_accepting_md5(st, pw, m) ==
    CASE m.kind = "Auth" /\ m.auth \in {"Ok", "Md5"} -> Handled("Authenticated")
      [] m.kind = "Auth" /\ m.auth \notin {"Ok", "Md5"} ->
            HandlerError(st, "Unimplemented authentication method")
      [] m.kind = "ErrorResponse" -> handle_auth_error(st, m.notice)
      [] OTHER -> HandlerError(st, "Unexpected non-auth message")

\* handle_auth with the PasswordMessage written twice.
handle_auth_md5_twice(st, pw, m) ==
    CASE m.kind = "Auth" /\ m.auth = "Ok" -> Handled("Authenticated")
      [] m.kind = "Auth" /\ m.auth = "Md5" ->
            LET pass == IF pw.some THEN pw.v ELSE <<>>
            IN  [Handled(st) EXCEPT
                   !.out = <<PasswordMessage(build_md5_hash(user, pass, m.data)),
                             PasswordMessage(build_md5_hash(user, pass, m.data))>>]
      [] m.kind = "Auth" /\ m.auth \notin {"Ok", "Md5"} ->
            HandlerError(st, "Unimplemented authentication method")
      [] m.kind = "ErrorResponse" -> handle_auth_error(st, m.notice)
      [] OTHER -> HandlerError(st, "Unexpected non-auth message")

\* handle_auth with the authentication requests it does not know passed over.
handle_auth_skipping_unsupported(st, pw, m) ==
    CASE m.kind = "Auth" /\ m.auth = "Ok" -> Handled("Authenticated")
      [] m.kind = "Auth" /\ m.auth = "Md5" ->
            LET pass == IF pw.some THEN pw.v ELSE <<>>
            IN  [Handled(st) EXCEPT
                   !.out = <<PasswordMessage(build_md5_hash(user, pass, m.data))>>]
      [] m.kind = "Auth" /\ m.auth \notin {"Ok", "Md5"} -> Handled(st)
      [] m.kind = "ErrorResponse" -> handle_auth_error(st, m.notice)
      [] OTHER -> HandlerError(st, "Unexpected non-auth message")

\* handle_auth, on the message popped from the queue.
handle_auth(st, pw, m) ==
    CASE m.kind = "Auth" /\ m.auth = "Ok" -> Handled("Authenticated")
      [] m.kind = "Auth" /\ m.auth = "Md5" ->
            LET pass == IF pw.some THEN pw.v ELSE <<>>
            IN  [Handled(st) EXCEPT
                   !.out = <<PasswordMessage(build_md5_hash(user, pass, m.data))>>]
      [] m.kind = "Auth" /\ m.auth \notin {"Ok", "Md5"} ->
            HandlerError(st, "Unimplemented authentication method")
      [] m.kind = "ErrorResponse" -> handle_auth_error(st, m.notice)
      [] OTHER -> HandlerError(st, "Unexpected non-auth message")

\* handle_server_info with only ParameterStatus let through.
handle_server_info_params_only(st, m) ==
    CASE m.kind = "ReadyForQuery" -> Handled("ReadyForQuery")
      [] m.kind = "ErrorResponse" -> handle_error(st, m.notice)
      [] m.kind = "ParamStatus" -> Handled(st)
      [] OTHER -> HandlerError(st, "Unexpected message")

\* handle_server_info, on the message popped from the queue.
handle_server_info(st, m) ==
    CASE m.kind = "ReadyForQuery" -> Handled("ReadyForQuery")
      [] m.kind = "ErrorResponse" -> handle_error(st, m.notice)
      [] OTHER -> Handled(st)

\* handle_ready_for_query that drops the message it popped.
handle_ready_for_query_lenient(st, m) == Handled(st)

\* handle_ready_for_query, on the message popped from a non-empty queue.
handle_ready_for_query(st, m) ==
    HandlerError(st, "Unexpected message after ReadyForQuery")

\* The match of handle_startup's inner loop (lines 76-94).
startup_dispatch(st, pw, m) ==
    CASE st = "AwaitingAuthResponse" -> handle_auth(st, pw, m)
      [] st = "AuthenticationRejected" -> [Handled(st) EXCEPT !.popped = FALSE]
      [] st = "Authenticated" -> handle_server_info(st, m)
      [] st = "ReadyForQuery" -> handle_ready_for_query(st, m)
      [] OTHER -> HandlerError(st, "Invalid startup state")

\* Lines 67-73 of handle_startup: every frame of the buffer, decoded.
RECURSIVE ParseAll(_, _)
ParseAllDecoded(rest, m, acc) ==
    IF m.res # "ok" THEN [res |-> m.res, err |-> m.err, msgs |-> acc]
    ELSE ParseAll(rest, Append(acc, m))

ParseAllTaken(t, acc) ==
    IF t.res # "ok" THEN [res |-> "err", err |-> t.text, msgs |-> acc]
    ELSE ParseAllDecoded(t.rest, from_slice(t.frame), acc)

ParseAll(buf, acc) ==
    IF buf = <<>> THEN [res |-> "ok", err |-> "", msgs |-> acc]
    ELSE ParseAllTaken(take_msg(buf), acc)

\* new up to initiate_connection: the StartupMessage is written, then the
\* state is set.
Connect ==
    /\ pc = "new"
    /\ sent' = Append(sent, StartupMessage(user, SomeText(database), <<>>))
    /\ state' = "AwaitingAuthResponse"
    /\ pc' = "startup_read"
    /\ entry' = [state |-> state, sent |-> Len(sent)]
    /\ seen' = <<>>
    /\ UNCHANGED << call, password, query_number, wire, server, served, message_queue,
                    remainder, data, handles, result, requests, awaiting,
                    eof_polls >>

\* What follows the decoding of the buffer: the inner loop is entered, or the
\* error is returned.
StartupParsed(p) ==
    /\ message_queue' = IF p.res = "ok" THEN p.msgs ELSE <<>>
    /\ pc' = CASE p.res = "ok" -> "startup_dispatch"
               [] p.res = "err" -> "new_err"
               [] OTHER -> "panicked"
    /\ result' = CASE p.res = "ok" -> result
                   [] p.res = "err" -> Error("new", "ProtocolError", p.err, "")
                   [] OTHER -> Returned("new", "Panic")

\* One pass of handle_startup's outer loop up to the dispatch: read_from_socket
\* returns once it holds any bytes, then the whole buffer is decoded.
StartupRead ==
    /\ pc = "startup_read"
    /\ state \notin {"ReadyForQuery", "AuthenticationRejected"}
    /\ wire # <<>>
    /\ \E k \in 1..Len(wire) :
          /\ wire' = SubSeq(wire, k + 1, Len(wire))
          /\ StartupParsed(ParseAll(SubSeq(wire, 1, k), <<>>))
    /\ UNCHANGED << call, state, password, query_number, sent, server, served,
                    remainder, data, handles, requests, entry, seen, awaiting,
                    eof_polls >>

\* The effect of one pass of the inner loop, m the message popped and h what
\* its handler returned: an Err leaves handle_startup and new.  `fails` is
\* whether the handler's send_message, if it makes one, fails.
StartupHandled(m, h, fails) ==
    /\ state' = h.state
    /\ sent' = IF fails THEN sent ELSE sent \o h.out
    /\ message_queue' = IF h.popped THEN Tail(message_queue) ELSE message_queue
    /\ seen' = IF h.popped THEN Append(seen, m.kind) ELSE seen
    /\ awaiting' = (awaiting /\ ~(state = "Authenticated" /\ m.kind = "ReadyForQuery"))
    /\ IF h.out # <<>> /\ fails
       THEN /\ pc' = "new_err"
            /\ result' = Error("new", "Io", "", m.kind)
       ELSE IF h.res = "Err"
       THEN /\ pc' = "new_err"
            /\ result' = [Error("new", h.err, h.text, m.kind) EXCEPT !.msg = h.msg]
       ELSE /\ pc' = IF h.popped /\ Tail(message_queue) = <<>>
                     THEN "startup_read" ELSE "startup_dispatch"
            /\ result' = result

\* One pass of the inner loop: the front message is popped and handled.
StartupDispatch ==
    /\ pc = "startup_dispatch"
    /\ message_queue # <<>>
    /\ \E fails \in WriteFails :
          StartupHandled(Head(message_queue),
                         startup_dispatch(state, password, Head(message_queue)),
                         fails)
    /\ UNCHANGED << call, password, query_number, wire, server, served, remainder,
                    data, handles, requests, entry, eof_polls >>

\* The match that ends new (lines 192-196), reached when handle_startup's
\* outer loop ends with Ok.
new_match(st) ==
    CASE st = "ReadyForQuery" -> Returned("new", "Ok")
      [] st = "AuthenticationRejected" -> Error("new", "Unauthenticated", "", "")
      [] OTHER -> Error("new", "Error", "Unexpected state", "")

NewReturn ==
    /\ pc = "startup_read"
    /\ state \in {"ReadyForQuery", "AuthenticationRejected"}
    /\ result' = new_match(state)
    /\ pc' = IF new_match(state).res = "Ok" THEN "idle" ELSE "new_err"
    /\ UNCHANGED << call, state, password, query_number, sent, wire, server, served,
                    message_queue, remainder, data, handles, requests, entry,
                    seen, awaiting, eof_polls >>

\* Drop for Connection that writes nothing.
drop_connection_silent(st) == [state |-> "Disconnected", out |-> <<>>]

\* Drop for Connection: Terminate is written (an error of the write is only
\* printed), then the state is set.
drop_connection(st) == [state |-> "Disconnected", out |-> <<Terminate>>]

\* new returns Err: the Connection it built goes out of scope and is dropped.
NewFail ==
    /\ pc = "new_err"
    /\ \E fails \in WriteFails :
          sent' = IF fails THEN sent ELSE sent \o drop_connection(state).out
    /\ state' = drop_connection(state).state
    /\ pc' = "closed"
    /\ UNCHANGED << call, password, query_number, wire, server, served, message_queue,
                    remainder, data, handles, result, requests, entry, seen,
                    awaiting, eof_polls >>

(***************************************************************************)
(* Connection::simple_query.                                               *)
(***************************************************************************)
\* The statements a caller sends: "q".
Statements == { <<113>> }

\* Lines 226-230: the Query is written, then the state is set.
simple_query_send(st, sql) ==
    [state |-> "AwaitingQueryResponse", out |-> <<Query(sql)>>]

SimpleQuerySend ==
    /\ pc = "idle"
    /\ requests < MaxRequests
    /\ \E sql \in Statements, fails \in WriteFails :
          IF fails
          THEN /\ UNCHANGED << sent, state, awaiting >>
               /\ pc' = "idle"
               /\ result' = Error("simple_query", "Io", "", "")
          ELSE /\ sent' = sent \o simple_query_send(state, sql).out
               /\ state' = simple_query_send(state, sql).state
               /\ awaiting' = TRUE
               /\ pc' = "sq_read"
               /\ result' = Returned("simple_query", "Pending")
    /\ data' = <<>>
    /\ remainder' = <<>>
    /\ requests' = requests + 1
    /\ entry' = [state |-> state, sent |-> Len(sent)]
    /\ seen' = <<>>
    /\ UNCHANGED << call, password, query_number, wire, server, served, message_queue,
                    handles, eof_polls >>

\* Lines 231-233: the one read_from_socket of simple_query, which returns once
\* it holds any bytes.
SimpleQueryRead ==
    /\ pc = "sq_read"
    /\ wire # <<>>
    /\ \E k \in 1..Len(wire) :
          /\ remainder' = SubSeq(wire, 1, k)
          /\ wire' = SubSeq(wire, k + 1, Len(wire))
    /\ pc' = "sq_loop"
    /\ UNCHANGED << call, state, password, query_number, sent, server, served,
                    message_queue, data, handles, result, requests, entry, seen,
                    awaiting, eof_polls >>

\* The match of simple_query's loop (lines 240-263) on a decoded message, with
\* `rest` the bytes after its frame: the new state, the rows, and Ok or Err.
simple_query_match(st, rows, m, rest) ==
    LET go(s, d) == [state |-> s, data |-> d, res |-> "Ok", text |-> ""]
    IN  CASE m.kind = "DataRow" -> go(st, Append(rows, m.cols))
          [] m.kind = "RowDescription" -> go("AwaitingDataRows", rows)
          [] m.kind = "CommandComplete" -> go(st, rows)
          [] m.kind = "ReadyForQuery" ->
                IF rest # <<>>
                THEN [go(st, rows) EXCEPT !.res = "Err",
                                          !.text = "Received data after ReadyForQuery"]
                ELSE go("ReadyForQuery", rows)
          [] m.kind = "NoticeResponse" -> go(st, rows)
          [] OTHER -> [go(st, rows) EXCEPT !.res = "Err", !.text = "unexpected data"]

\* The effect of one pass of the loop on a decoded message m, with h what the
\* match returned: an Err leaves simple_query.
SimpleQueryMatched(rest, m, h) ==
    /\ remainder' = rest
    /\ state' = h.state
    /\ data' = h.data
    /\ seen' = Append(seen, m.kind)
    /\ awaiting' = (awaiting /\ m.kind # "ReadyForQuery")
    /\ IF h.res = "Err"
       THEN /\ result' = Error("simple_query", "Error", h.text, m.kind)
            /\ pc' = "idle"
       ELSE /\ result' = result
            /\ pc' = "sq_loop"

\* from_slice(bytes)? on the frame taken.
SimpleQueryDecoded(rest, m) ==
    IF m.res = "err"
    THEN /\ result' = Error("simple_query", "ProtocolError", m.err, "")
         /\ pc' = "idle"
         /\ UNCHANGED << state, data, remainder, seen, awaiting >>
    ELSE IF m.res = "panic"
    THEN /\ result' = Returned("simple_query", "Panic")
         /\ pc' = "panicked"
         /\ UNCHANGED << state, data, remainder, seen, awaiting >>
    ELSE SimpleQueryMatched(rest, m, simple_query_match(state, data, m, rest))

\* take_msg(remainder)? on the buffer.
SimpleQueryTaken(t) ==
    IF t.res # "ok"
    THEN /\ result' = Error("simple_query", "ProtocolError", t.text, "")
         /\ pc' = "idle"
         /\ UNCHANGED << state, data, remainder, seen, awaiting >>
    ELSE SimpleQueryDecoded(t.rest, from_slice(t.frame))

\* One pass of the loop: take_msg, from_slice, match.
SimpleQueryStep ==
    /\ pc = "sq_loop"
    /\ remainder # <<>>
    /\ SimpleQueryTaken(take_msg(remainder))
    /\ UNCHANGED << call, password, query_number, sent, wire, server, served,
                    message_queue, handles, requests, entry, eof_polls >>

\* The loop ends when the buffer is used up: Ok(data).
SimpleQueryReturn ==
    /\ pc = "sq_loop"
    /\ remainder = <<>>
    /\ result' = [Returned("simple_query", "Ok") EXCEPT !.rows = data]
    /\ pc' = "idle"
    /\ UNCHANGED << call, state, password, query_number, sent, wire, server, served,
                    message_queue, remainder, data, handles, requests, entry,
                    seen, awaiting, eof_polls >>

(***************************************************************************)
(* Connection::prepare and QueryHandle::bind.                              *)
(***************************************************************************)
\* prepare with the counter left where it was.
prepare_send_same_number(st, n, sql) ==
    [state |-> st, query_number |-> n, query_name |-> to_string(n),
     out |-> <<ParseMessage(to_string(n), sql, <<>>)>>]

\* Lines 277-285: the statement is named after query_number, the counter is
\* advanced and the Parse is written; the state is not touched.
prepare_send(st, n, sql) ==
    [state |-> st, query_number |-> n + 1, query_name |-> to_string(n),
     out |-> <<ParseMessage(to_string(n), sql, <<>>)>>]

PrepareSend ==
    /\ pc = "idle"
    /\ requests < MaxRequests
    /\ \E sql \in Statements, fails \in WriteFails :
          LET h == prepare_send(state, query_number, sql)
          IN  /\ state' = h.state
              /\ query_number' = h.query_number
              /\ IF fails
                 THEN /\ UNCHANGED << sent, awaiting >>
                      /\ pc' = "idle"
                      /\ result' = [Error("prepare", "Io", "", "")
                                       EXCEPT !.msg = h.query_name]
                 ELSE /\ sent' = sent \o h.out
                      /\ awaiting' = TRUE
                      /\ pc' = "prepare_read"
                      /\ result' = [Returned("prepare", "Pending")
                                       EXCEPT !.msg = h.query_name]
    /\ requests' = requests + 1
    /\ entry' = [state |-> state, sent |-> Len(sent)]
    /\ seen' = <<>>
    /\ UNCHANGED << call, password, wire, server, served, message_queue, remainder,
                    data, handles, eof_polls >>

\* Lines 288-302 on the buffer read: Ok(QueryHandle) or Err.
prepare_decoded(m) ==
    IF m.res = "err" THEN Error("prepare", "ProtocolError", m.err, "")
    ELSE IF m.res = "panic" THEN Returned("prepare", "Panic")
    ELSE CASE m.kind = "ParseComplete" -> Returned("prepare", "Ok")
           [] m.kind = "ErrorResponse" ->
                 Error("prepare", "Error", "ServerError", m.kind)
           [] OTHER -> Error("prepare", "Error", "Unexpected message", m.kind)

\* prepare that looks only at the first frame of what it read.
prepare_taken_first_frame(t) ==
    IF t.res # "ok" THEN Error("prepare", "ProtocolError", t.text, "")
    ELSE prepare_decoded(from_slice(t.frame))

prepare_taken(t) ==
    IF t.res # "ok" THEN Error("prepare", "ProtocolError", t.text, "")
    ELSE IF t.rest # <<>> THEN Error("prepare", "Other", "", "")
    ELSE prepare_decoded(from_slice(t.frame))

prepare_match(buf) == prepare_taken(take_msg(buf))

\* prepare returns r; an Ok carries the QueryHandle named before the send.
PrepareMatched(r) ==
    /\ result' = r
    /\ pc' = IF r.res = "Panic" THEN "panicked" ELSE "idle"
    /\ handles' = IF r.res = "Ok"
                  THEN Append(handles, to_string(query_number - 1))
                  ELSE handles
    /\ seen' = IF r.res = "Ok" THEN Append(seen, "ParseComplete")
               ELSE IF r.at # "" THEN Append(seen, r.at)
               ELSE seen
    /\ awaiting' = (awaiting /\ r.at # "ReadyForQuery")

\* Lines 286-302: the one read_from_socket of prepare and what follows it.
PrepareRead ==
    /\ pc = "prepare_read"
    /\ wire # <<>>
    /\ \E k \in 1..Len(wire) :
          /\ wire' = SubSeq(wire, k + 1, Len(wire))
          /\ PrepareMatched(prepare_match(SubSeq(wire, 1, k)))
    /\ UNCHANGED << call, state, password, query_number, sent, server, served,
                    message_queue, remainder, data, requests, entry,
                    eof_polls >>

\* The portal names and parameter lists a caller binds with.
PortalNames == { <<>> }

ParamLists == { <<>>, << <<120>> >> }

\* QueryHandle::bind: the Bind is written and a Portal returned; nothing is
\* read and the state is not touched.
bind_send(st, query_name, portal_name, params) ==
    [state |-> st, out |-> <<BindMessage(portal_name, query_name, <<>>, params, <<>>)>>]

Bind ==
    /\ pc = "idle"
    /\ requests < MaxRequests
    /\ \E i \in 1..Len(handles), portal_name \in PortalNames, params \in ParamLists :
          LET h == bind_send(state, handles[i], portal_name, params)
          IN  /\ state' = h.state
              /\ \E fails \in WriteFails :
                    IF fails
                    THEN /\ UNCHANGED << sent, awaiting >>
                         /\ result' = Error("bind", "Io", "", "")
                    ELSE /\ sent' = sent \o h.out
                         /\ awaiting' = TRUE
                         /\ result' = Returned("bind", "Ok")
    /\ requests' = requests + 1
    /\ entry' = [state |-> state, sent |-> Len(sent)]
    /\ seen' = <<>>
    /\ UNCHANGED << call, password, query_number, wire, server, served, pc,
                    message_queue, remainder, data, handles, eof_polls >>

(***************************************************************************)
(* Drop for QueryHandle.                                                   *)
(***************************************************************************)
\* Lines 362-366: the Close of the prepared statement; an error of the write
\* is discarded.
close_send(st, query_name) ==
    [state |-> st, out |-> <<CloseMessage(83, query_name)>>]

\* The handles left once the i-th is dropped.
Without(hs, i) == SubSeq(hs, 1, i - 1) \o SubSeq(hs, i + 1, Len(hs))

DropHandleSend ==
    /\ pc = "idle"
    /\ \E i \in 1..Len(handles), fails \in WriteFails :
          /\ sent' = IF fails THEN sent
                     ELSE sent \o close_send(state, handles[i]).out
          /\ state' = close_send(state, handles[i]).state
          /\ awaiting' = (awaiting \/ ~fails)
          /\ handles' = Without(handles, i)
          /\ result' = [Returned("drop_handle", "Pending") EXCEPT !.msg = handles[i]]
    /\ pc' = "close_read"
    /\ entry' = [state |-> state, sent |-> Len(sent)]
    /\ seen' = <<>>
    /\ UNCHANGED << call, password, query_number, wire, server, served, message_queue,
                    remainder, data, requests, eof_polls >>

\* Lines 370-408: the loop over the reply, which only logs; it ends when the
\* buffer is used up ("done"), at an Err of take_msg or from_slice ("break"),
\* or in a panic of from_slice.
RECURSIVE close_loop(_, _)
close_loop_decoded(rest, m, acc) ==
    IF m.res = "panic" THEN [end |-> "panic", seen |-> acc]
    ELSE IF m.res = "err" THEN [end |-> "break", seen |-> acc]
    ELSE close_loop(rest, Append(acc, m.kind))

close_loop_taken(t, acc) ==
    IF t.res # "ok" THEN [end |-> "break", seen |-> acc]
    ELSE close_loop_decoded(t.rest, from_slice(t.frame), acc)

close_loop(buf, acc) ==
    IF buf = <<>> THEN [end |-> "done", seen |-> acc]
    ELSE close_loop_taken(take_msg(buf), acc)

\* Line 411: whatever the loop did, the drop ends in todo!(), a panic.
DropHandleLooped(l) ==
    /\ seen' = l.seen
    /\ awaiting' = (awaiting /\ \A i \in 1..Len(l.seen) : l.seen[i] # "ReadyForQuery")
    /\ result' = [result EXCEPT !.res = "Panic", !.text = l.end]
    /\ pc' = "panicked"

\* Lines 367-411: the one read_from_socket of the drop and what follows it.
DropHandleRead ==
    /\ pc = "close_read"
    /\ wire # <<>>
    /\ \E k \in 1..Len(wire) :
          /\ wire' = SubSeq(wire, k + 1, Len(wire))
          /\ DropHandleLooped(close_loop(SubSeq(wire, 1, k), <<>>))
    /\ UNCHANGED << call, state, password, query_number, sent, server, served,
                    message_queue, remainder, data, handles, requests, entry,
                    eof_polls >>

(***************************************************************************)
(* read_from_socket at end of file.                                        *)
(***************************************************************************)
\* The operation is inside read_from_socket.
Reading ==
    \/ pc = "startup_read" /\ state \notin {"ReadyForQuery", "AuthenticationRejected"}
    \/ pc \in {"sq_read", "prepare_read", "close_read"}

\* One pass of read_from_socket's loop after the peer closed with nothing left
\* to read: read_to_end returns Ok(0), the buffer is still empty, `continue`.
ReadEndOfFile ==
    /\ Reading
    /\ server = "closed"
    /\ wire = <<>>
    /\ eof_polls' = 1 - eof_polls
    /\ UNCHANGED << call, state, password, query_number, sent, wire, server, served,
                    pc, message_queue, remainder, data, handles, result,
                    requests, entry, seen, awaiting >>

(***************************************************************************)
(* Drop for Connection, once the caller holds no QueryHandle on it.        *)
(***************************************************************************)
DropConnection ==
    /\ pc = "idle"
    /\ handles = <<>>
    /\ \E fails \in WriteFails :
          sent' = IF fails THEN sent ELSE sent \o drop_connection(state).out
    /\ state' = drop_connection(state).state
    /\ pc' = "closed"
    /\ UNCHANGED << call, password, query_number, wire, server, served, message_queue,
                    remainder, data, handles, result, requests, entry, seen,
                    awaiting, eof_polls >>

\* A panic unwinds the caller's stack, which drops the Connection; with a
\* QueryHandle still alive its drop panics first and the process aborts, as it
\* does at once in a build with panic = "abort" (the session stays as it is).
Unwind ==
    /\ pc = "panicked"
    /\ handles = <<>>
    /\ \E fails \in WriteFails :
          sent' = IF fails THEN sent ELSE sent \o drop_connection(state).out
    /\ state' = drop_connection(state).state
    /\ pc' = "closed"
    /\ UNCHANGED << call, password, query_number, wire, server, served, message_queue,
                    remainder, data, handles, result, requests, entry, seen,
                    awaiting, eof_polls >>

Next ==
    \/ ServerReact
    \/ ServerClose
    \/ Connect
    \/ StartupRead
    \/ StartupDispatch
    \/ NewReturn
    \/ NewFail
    \/ SimpleQuerySend
    \/ SimpleQueryRead
    \/ SimpleQueryStep
    \/ SimpleQueryReturn
    \/ PrepareSend
    \/ PrepareRead
    \/ Bind
    \/ DropHandleSend
    \/ DropHandleRead
    \/ ReadEndOfFile
    \/ DropConnection
    \/ Unwind

Spec == Init /\ [][Next]_vars

(***************************************************************************)
(* The functions of the protocol layer on their own: Message::to_bytes,    *)
(* take_msg and ServerMsg::from_slice applied to inputs drawn from bounded *)
(* sets, the way the unit tests of message.rs and server.rs apply them.    *)
(***************************************************************************)
\* Longest generated text of a frontend message.
MaxText == 2

\* Frames in a stream handed to take_msg.
MaxFrames == 3

\* Longest generated body of a backend frame handed to from_slice.
MaxBody == 5

\* Longest generated tail after the length field of a raw take_msg input.
MaxTail == 4

SeqsUpTo(alphabet, n) == UNION { [1..k -> alphabet] : k \in 0..n }

\* "cliff", "open sesame", "SELECT 1" and the parameters of
\* test_startup_message, beside the generated texts.
Cliff == <<99, 108, 105, 102, 102>>

OpenSesame == <<111, 112, 101, 110, 32, 115, 101, 115, 97, 109, 101>>

Select1 == <<83, 69, 76, 69, 67, 84, 32, 49>>

TheseusParams ==
    << << <<110, 97, 109, 101>>, <<84, 104, 101, 115, 101, 117, 115>> >>,
       << <<118, 101, 115, 115, 101, 108>>, <<115, 104, 105, 112>> >> >>

Texts == SeqsUpTo({97, 98}, MaxText) \cup {Cliff, OpenSesame, Select1}

Options == {NoText} \cup { SomeText(t) : t \in SeqsUpTo({97, 98}, MaxText) }

ParamVecs == { <<>>, << <<<<97>>, <<98>>>> >>, TheseusParams }

\* The frontend messages, by struct.
StartupMessages ==
    { [type |-> "StartupMessage", user |-> u, database |-> d, params |-> ps] :
        u \in Texts, d \in Options, ps \in ParamVecs }

PasswordMessages == { [type |-> "PasswordMessage", hash |-> h] : h \in Texts }

Queries == { [type |-> "Query", query |-> q] : q \in Texts }

ParseMessages ==
    { [type |-> "ParseMessage", name |-> n, sql |-> q, param_types |-> ts] :
        n \in SeqsUpTo({97, 98}, 1), q \in Texts, ts \in {<<>>, <<23>>, <<23, 1043>>} }

BindMessages ==
    { [type |-> "BindMessage", portal |-> n, prepared_statement |-> q,
       param_format_codes |-> cs, param_values |-> vs, result_format_codes |-> rs] :
        n \in SeqsUpTo({97, 98}, 1), q \in SeqsUpTo({97, 98}, 1),
        cs \in {<<>>, <<0>>, <<1, 0>>}, vs \in ParamLists, rs \in {<<>>, <<1>>} }

ExecuteMessages ==
    { [type |-> "ExecuteMessage", portal |-> n, max_rows |-> r] :
        n \in Texts, r \in {0, 1, 256, 65537} }

CloseMessages ==
    { [type |-> "CloseMessage", close_type |-> t, name |-> n] :
        t \in {83, 80}, n \in Texts }

BodilessMessages == { [type |-> "SyncMessage"], [type |-> "Terminate"] }

\* msg.to_bytes() through the Message trait.
Message_to_bytes(msg) ==
    CASE msg.type = "StartupMessage" ->
            StartupMessage(msg.user, msg.database, msg.params)
      [] msg.type = "PasswordMessage" -> PasswordMessage(msg.hash)
      [] msg.type = "Query" -> Query(msg.query)
      [] msg.type = "ParseMessage" -> ParseMessage(msg.name, msg.sql, msg.param_types)
      [] msg.type = "BindMessage" ->
            BindMessage(msg.portal, msg.prepared_statement, msg.param_format_codes,
                        msg.param_values, msg.result_format_codes)
      [] msg.type = "ExecuteMessage" -> ExecuteMessage(msg.portal, msg.max_rows)
      [] msg.type = "CloseMessage" -> CloseMessage(msg.close_type, msg.name)
      [] msg.type = "SyncMessage" -> SyncMessage
      [] msg.type = "Terminate" -> Terminate

\* Streams of well-formed frames: the two frames of test_take_msg, a
\* ReadyForQuery and a ParseComplete (an empty body).
StreamFrames ==
    { <<69, 0, 0, 0, 5, 1>>, <<72, 0, 0, 0, 12, 1, 2, 3, 4, 5, 6, 7, 8>>,
      ReadyFrame, ParseCompleteFrame }

RECURSIVE Flatten(_)
Flatten(frames) ==
    IF frames = <<>> THEN <<>> ELSE Head(frames) \o Flatten(Tail(frames))

\* Raw inputs of take_msg: an identifier, a length field, a tail, cut anywhere.
LengthFields ==
    { <<a, 0, c, d>> : a \in {0, 1, 127, 255}, c \in {0, 1}, d \in 0..(MaxTail + 4) }

RawInputs ==
    { <<id>> \o len \o tail :
        id \in {0, 69, 255}, len \in LengthFields, tail \in SeqsUpTo({0, 7}, MaxTail) }

\* A payload each arm of from_slice accepts, by identifier.
ValidPayloads ==
    { <<82, <<0, 0, 0, 0>>>>, <<82, <<0, 0, 0, 5, 1, 2, 3, 4>>>>,
      <<83, <<97, 0, 98, 0>>>>, <<75, <<0, 0, 0, 7, 0, 0, 0, 9>>>>,
      <<84, <<0, 0>>>>, <<68, <<0, 0>>>>, <<67, <<97, 0>>>>, <<90, <<73>>>>,
      <<69, NoticeBytes>>, <<78, NoticeBytes>>,
      <<49, <<>>>>, <<50, <<>>>>, <<51, <<>>>>, <<73, <<>>>> }

\* The payload, the payload without its last byte and the payload with one
\* more byte.
PayloadVariants(body) ==
    {body, body \o <<0>>, body \o <<97>>}
    \cup (IF body = <<>> THEN {} ELSE {SubSeq(body, 1, Len(body) - 1)})

\* Most columns of a generated DataRow and fields of a generated
\* RowDescription.
MaxColumns == 2

\* Columns of a DataRow: NULL (length -1), the empty value, "a" and "ab".
ColumnBytes ==
    { <<255, 255, 255, 255>>, <<0, 0, 0, 0>>, <<0, 0, 0, 1, 97>>,
      <<0, 0, 0, 2, 97, 98>> }

\* Bodies of 'D' frames: a count, columns (as many as the count says, or
\* not) and possibly one byte more.
DataRowBodies ==
    { u16_to_be_bytes(c) \o Flatten(cols) \o tail :
        c \in 0..MaxColumns, cols \in SeqsUpTo(ColumnBytes, MaxColumns),
        tail \in {<<>>, <<0>>} }

\* A field of a RowDescription: the name, NUL, table oid, attribute number,
\* type oid, type size and type modifier (16 bytes) and the format code.
FieldBytes(name, format) ==
    name \o <<0>> \o <<0, 0, 0, 0, 0, 0, 0, 0, 0, 25, 255, 255, 255, 255, 255, 255>>
    \o u16_to_be_bytes(format)

\* Bodies of 'T' frames: a count, fields with format codes 0, 1 and 2, a
\* field cut one byte short, a name with no NUL, and possibly one byte more.
RowDescriptionBodies ==
    { u16_to_be_bytes(c) \o Flatten(fs) \o tail :
        c \in 0..MaxColumns,
        fs \in SeqsUpTo({ FieldBytes(<<97>>, f) : f \in {0, 1, 2} }
                        \cup { SubSeq(FieldBytes(<<97>>, 0), 1, 19), <<97>> },
                        MaxColumns),
        tail \in {<<>>, <<0>>} }

\* Spellings of a severity: the eight Severity::new knows and one it does not.
Spellings ==
    { <<69, 82, 82, 79, 82>>, <<70, 65, 84, 65, 76>>, <<80, 65, 78, 73, 67>>,
      <<87, 65, 82, 78, 73, 78, 71>>, <<78, 79, 84, 73, 67, 69>>,
      <<68, 69, 66, 85, 71>>, <<73, 78, 70, 79>>, <<76, 79, 71>>,
      <<101, 114, 114>> }

\* A field of a notice body (tag, value, NUL), or its absence.
OptField(tag, values) == {<<>>} \cup { <<tag>> \o v \o <<0>> : v \in values }

\* What follows the fields: the zero terminator, nothing, the terminator and
\* one more byte, or a field whose value has no NUL.
NoticeEnds == { <<0>>, <<>>, <<0, 0>>, <<0, 77>>, <<68, 100>> }

\* Bodies of 'E' and 'N' frames: S, V, C and M each present or absent, in
\* this order or the reverse, and an end.
NoticeBodies ==
    UNION { { s \o v \o c \o m \o end, m \o c \o v \o s \o end } :
            s \in OptField(83, Spellings), v \in OptField(86, Spellings),
            c \in OptField(67, {<<52>>}), m \in OptField(77, {<<109>>}),
            end \in NoticeEnds }

\* Correctly framed backend messages: every identifier byte with every
\* generated body, the payload variants, and the generated bodies of the
\* 'D', 'T', 'E' and 'N' frames.
BackendFrames ==
    { ServerFrame(id, body) : id \in 0..255, body \in SeqsUpTo({0, 97}, MaxBody) }
    \cup UNION { { ServerFrame(p[1], body) : body \in PayloadVariants(p[2]) } :
                 p \in ValidPayloads }
    \cup { ServerFrame(68, body) : body \in DataRowBodies }
    \cup { ServerFrame(84, body) : body \in RowDescriptionBodies }
    \cup { ServerFrame(id, body) : id \in {69, 78}, body \in NoticeBodies }

connection_vars ==
    << state, password, query_number, sent, wire, server, served, pc,
       message_queue, remainder, data, handles, result, requests,
       entry, seen, awaiting, eof_polls >>

EncodeCall(msg) == [NoCall EXCEPT !.fn = "to_bytes", !.msg = msg, !.stage = "encoding"]

\* No connection is made; one function is applied to one input.
CodecInit ==
    /\ state = "New"
    /\ password = NoText
    /\ query_number = 0
    /\ sent = <<>>
    /\ wire = <<>>
    /\ server = "open"
    /\ served = 0
    /\ pc = "new"
    /\ message_queue = <<>>
    /\ remainder = <<>>
    /\ data = <<>>
    /\ handles = <<>>
    /\ result = NoResult
    /\ requests = 0
    /\ entry = [state |-> "New", sent |-> 0]
    /\ seen = <<>>
    /\ awaiting = FALSE
    /\ eof_polls = 0
    /\ \/ \E msg \in StartupMessages : call = EncodeCall(msg)
       \/ \E msg \in PasswordMessages : call = EncodeCall(msg)
       \/ \E msg \in Queries : call = EncodeCall(msg)
       \/ \E msg \in ParseMessages : call = EncodeCall(msg)
       \/ \E msg \in BindMessages : call = EncodeCall(msg)
       \/ \E msg \in ExecuteMessages : call = EncodeCall(msg)
       \/ \E msg \in CloseMessages : call = EncodeCall(msg)
       \/ \E msg \in BodilessMessages : call = EncodeCall(msg)
       \/ \E given \in SeqsUpTo(StreamFrames, MaxFrames) :
             \E n \in 0..Len(Flatten(given)) :
                call = [NoCall EXCEPT !.fn = "take_msg_loop", !.given = given,
                                      !.input = SubSeq(Flatten(given), 1, n),
                                      !.rest = SubSeq(Flatten(given), 1, n),
                                      !.stage = "framing"]
       \/ \E raw \in RawInputs : \E n \in 0..Len(raw) :
             call = [NoCall EXCEPT !.fn = "take_msg",
                                   !.input = SubSeq(raw, 1, n),
                                   !.rest = SubSeq(raw, 1, n),
                                   !.stage = "framing"]
       \/ \E frame \in BackendFrames :
             call = [NoCall EXCEPT !.fn = "from_slice", !.input = frame,
                                   !.stage = "decoding"]

Encoded(c, bytes) == [c EXCEPT !.input = bytes, !.rest = bytes, !.stage = "framing"]

\* let bytes = msg.to_bytes();
ToBytes ==
    /\ call.stage = "encoding"
    /\ call' = Encoded(call, Message_to_bytes(call.msg))
    /\ UNCHANGED connection_vars

\* One take_msg(rest): Ok((frame, rest)) or the Err that ends the loop.
Taken(c, t) ==
    IF t.res = "ok"
    THEN [c EXCEPT !.frames = Append(@, t.frame), !.rest = t.rest]
    ELSE [c EXCEPT !.stage = "need_more"]

TakeMsg ==
    /\ call.stage = "framing"
    /\ call' = Taken(call, take_msg(call.rest))
    /\ UNCHANGED connection_vars

\* ServerMsg::from_slice(frame)
FromSlice ==
    /\ call.stage = "decoding"
    /\ call' = [call EXCEPT !.decoded = from_slice(call.input), !.stage = "decoded"]
    /\ UNCHANGED connection_vars

CodecNext == ToBytes \/ TakeMsg \/ FromSlice

CodecSpec == CodecInit /\ [][CodecNext]_vars

(***************************************************************************)
(* The session contract, stated on the model.                              *)
(***************************************************************************)

\* C1: a request (simple_query, prepare, bind) begun while the state is not
\* ReadyForQuery has returned a State error, has written nothing to the socket
\* and has left the state as it found it.
C1_StateChecked ==
    (pc # "closed" /\ result.op \in {"simple_query", "prepare", "bind"}
       /\ entry.state # "ReadyForQuery") =>
        /\ result.res = "Err"
        /\ result.err = "State"
        /\ Len(sent) = entry.sent
        /\ state = entry.state

\* C2: a request message (Query, Parse, Bind, Close) is written to the socket
\* only when a ReadyForQuery has been observed since the request message
\* before it.
C2_ReadyBetweenRequests ==
    [][ (Len(sent') > Len(sent)
           /\ sent'[Len(sent')][1] \in {81, 80, 66, 67}) => ~awaiting ]_vars

\* C3: when simple_query has returned Ok, it has dispatched a ReadyForQuery
\* and the state is ReadyForQuery, however the reply was divided across reads.
C3_OkOnlyAfterReady ==
    (pc = "idle" /\ result.op = "simple_query" /\ result.res = "Ok") =>
        /\ \E i \in 1..Len(seen) : seen[i] = "ReadyForQuery"
        /\ state = "ReadyForQuery"

\* C4: once a simple_query that was answered with an ErrorResponse has
\* returned, the state is ReadyForQuery again.
C4_ReadyAfterServerError ==
    (pc = "idle" /\ result.op = "simple_query" /\ result.res # "Pending"
       /\ \E i \in 1..Len(seen) : seen[i] = "ErrorResponse") =>
        state = "ReadyForQuery"

\* C5: a pending request never returns at the ErrorResponse itself: the
\* messages up to the ReadyForQuery are consumed before the error is returned.
C5_ErrorDrained ==
    ~ ( /\ result.op \in {"simple_query", "prepare"}
        /\ result.res = "Err"
        /\ result.at = "ErrorResponse" )

\* C6: no operation fails at a ParameterStatus or a NoticeResponse.
C6_StatusAndNoticeAbsorbed ==
    ~ ( /\ result.res = "Err"
        /\ result.at \in {"ParamStatus", "NoticeResponse"} )

\* C7: the state is never ReadyForQuery while a request has been written and
\* its ReadyForQuery has not been observed.
C7_BusyWhileOutstanding == awaiting => state # "ReadyForQuery"

\* C8: the state is New until the StartupMessage is written, which is the
\* first frame sent; AwaitingAuthResponse is entered only from New,
\* Authenticated only from AwaitingAuthResponse on Authentication(Ok),
\* ReadyForQuery during startup only from Authenticated on a ReadyForQuery;
\* no startup state is entered again; new hands out a Connection only in state
\* ReadyForQuery, and every other way new ends is an Err, after which there is
\* no Connection to use.
C8_StartupOrder ==
    /\ [](state = "New" <=> pc = "new")
    /\ [](state # "New" =>
            /\ Len(sent) >= 1
            /\ sent[1] = StartupMessage(user, SomeText(database), <<>>))
    /\ [](pc = "new_err" => result.op = "new" /\ result.res = "Err")
    /\ [](pc = "panicked" => result.op # "new")
    /\ [][ /\ state' = "New" => state = "New"
           /\ (state' = "AwaitingAuthResponse" /\ state' # state) => state = "New"
           /\ (state' = "Authenticated" /\ state' # state) =>
                 /\ state = "AwaitingAuthResponse"
                 /\ pc = "startup_dispatch"
                 /\ Head(message_queue).kind = "Auth"
                 /\ Head(message_queue).auth = "Ok"
           /\ (state' = "AuthenticationRejected" /\ state' # state) =>
                 state = "AwaitingAuthResponse"
           /\ (state' = "ReadyForQuery" /\ state' # state
                 /\ pc \in {"new", "startup_read", "startup_dispatch"}) =>
                 /\ state = "Authenticated"
                 /\ pc = "startup_dispatch"
                 /\ Head(message_queue).kind = "ReadyForQuery"
           /\ (pc \in {"new", "startup_read", "startup_dispatch"} /\ pc' = "idle") =>
                 /\ state' = "ReadyForQuery"
                 /\ result'.op = "new"
                 /\ result'.res = "Ok"
           /\ (result'.op = "new" /\ result'.res = "Ok" /\ result' # result) =>
                 state' = "ReadyForQuery" /\ pc' = "idle"
           /\ pc = "new_err" => pc' \in {"new_err", "closed"}
           /\ pc = "closed" => pc' = "closed"
       ]_vars

\* new has returned a Connection after answering an MD5 challenge.
C8_ConnectedAfterMd5 ==
    /\ pc = "idle"
    /\ result.op = "new"
    /\ result.res = "Ok"
    /\ state = "ReadyForQuery"
    /\ Len(sent) = 2
    /\ sent[2][1] = 112

\* C9: in state Authenticated during startup, a ParameterStatus, a
\* BackendKeyData or a NoticeResponse is popped with the state left
\* Authenticated and no error; a ReadyForQuery moves the state to
\* ReadyForQuery, and from then on startup reads nothing more: it returns.
C9_ServerInfoAbsorbed ==
    [][ /\ (pc = "startup_dispatch" /\ state = "Authenticated" /\ seen' # seen) =>
              /\ Head(message_queue).kind
                     \in {"ParamStatus", "BackendKeyData", "NoticeResponse"} =>
                     /\ state' = "Authenticated"
                     /\ message_queue' = Tail(message_queue)
                     /\ pc' \in {"startup_read", "startup_dispatch"}
                     /\ result' = result
              /\ Head(message_queue).kind = "ReadyForQuery" =>
                     /\ state' = "ReadyForQuery"
                     /\ pc' \in {"startup_read", "startup_dispatch"}
        /\ (pc \in {"startup_read", "startup_dispatch"} /\ state = "ReadyForQuery"
              /\ pc' # pc) =>
              /\ pc' \in {"idle", "new_err"}
              /\ wire' = wire
      ]_vars

\* new has returned a Connection after a ParameterStatus and a BackendKeyData
\* were absorbed between Authentication(Ok) and ReadyForQuery.
C9_StartupCompleted ==
    /\ pc = "idle"
    /\ result.op = "new"
    /\ result.res = "Ok"
    /\ seen = <<"Auth", "ParamStatus", "BackendKeyData", "ReadyForQuery">>

\* C10: when new has failed at an ErrorResponse received before the session
\* was Authenticated, the state is AuthenticationRejected and the error is
\* PgError::Unauthenticated.
C10_RejectionReported ==
    (pc = "new_err" /\ result.at = "ErrorResponse" /\ state # "Authenticated") =>
        /\ state = "AuthenticationRejected"
        /\ result.err = "Unauthenticated"

\* C11: in AwaitingAuthResponse, handling an Authentication(Md5) leaves the
\* state AwaitingAuthResponse and writes exactly one frame, a PasswordMessage
\* (or the write fails with an I/O error and nothing is written); the state
\* leaves AwaitingAuthResponse only on an Authentication(Ok) or an
\* ErrorResponse, or when the failed Connection is dropped.
C11_Md5AnsweredOnce ==
    [][ /\ (pc = "startup_dispatch" /\ state = "AwaitingAuthResponse"
              /\ seen' # seen
              /\ Head(message_queue).kind = "Auth"
              /\ Head(message_queue).auth = "Md5") =>
              /\ state' = "AwaitingAuthResponse"
              /\ \/ /\ Len(sent') = Len(sent) + 1
                    /\ SubSeq(sent', 1, Len(sent)) = sent
                    /\ sent'[Len(sent')][1] = 112
                    /\ pc' \in {"startup_read", "startup_dispatch"}
                 \/ /\ sent' = sent
                    /\ pc' = "new_err"
                    /\ result'.err = "Io"
        /\ (state = "AwaitingAuthResponse" /\ state' # state) =>
              \/ /\ pc = "startup_dispatch"
                 /\ \/ /\ Head(message_queue).kind = "Auth"
                       /\ Head(message_queue).auth = "Ok"
                       /\ state' = "Authenticated"
                    \/ /\ Head(message_queue).kind = "ErrorResponse"
                       /\ state' = "AuthenticationRejected"
              \/ pc = "new_err" /\ state' = "Disconnected"
      ]_vars

\* Two MD5 challenges were answered, each with one PasswordMessage, and the
\* session is still awaiting the authentication response.
C11_TwoChallengesAnswered ==
    /\ state = "AwaitingAuthResponse"
    /\ pc = "startup_read"
    /\ Len(sent) = 3
    /\ sent[2][1] = 112
    /\ sent[3][1] = 112
    /\ seen = <<"Auth", "Auth">>

\* C12: in AwaitingAuthResponse, handling an Authentication(Cleartext) writes
\* a PasswordMessage and leaves the state AwaitingAuthResponse with startup
\* going on (or the write fails with an I/O error).
C12_CleartextAnswered ==
    [][ (pc = "startup_dispatch" /\ state = "AwaitingAuthResponse"
           /\ seen' # seen
           /\ Head(message_queue).kind = "Auth"
           /\ Head(message_queue).auth = "Cleartext") =>
           /\ state' = "AwaitingAuthResponse"
           /\ \/ /\ Len(sent') = Len(sent) + 1
                 /\ sent'[Len(sent')][1] = 112
                 /\ pc' \in {"startup_read", "startup_dispatch"}
              \/ /\ pc' = "new_err"
                 /\ result'.err = "Io"
      ]_vars

C14_NoPasswordNoAnswer ==
    ~password.some => \A i \in 1..Len(sent) : sent[i][1] # 112

\* C15: when an operation on the connection has returned an error that is
\* not a server-reported one, the state is Disconnected.
C15_FailureCloses ==
    (pc = "idle" /\ result.res = "Err" /\ result.at # "ErrorResponse") =>
        state = "Disconnected"

\* C16: when a read meets end of file with nothing read, the waiting
\* operation stops reading and returns an error, and the state is
\* Disconnected.
C16_EndOfFileIsFatal ==
    [][ (Reading /\ server = "closed" /\ wire = <<>> /\ eof_polls' # eof_polls) =>
           /\ pc' # pc
           /\ result'.res = "Err"
           /\ state' = "Disconnected"
      ]_vars

\* C17: the drop of the Connection sets the state to Disconnected, changes no
\* result (no error is raised) and writes exactly the frame 88 0 0 0 4, or
\* nothing when the write fails on a socket the peer has closed; Terminate is
\* never followed by another frame, and nothing happens after the drop.
C17_TerminateOnDrop ==
    /\ [](state = "Disconnected" <=> pc = "closed")
    /\ [](\A i \in 1..Len(sent) : sent[i][1] = 88 =>
             i = Len(sent) /\ sent[i] = <<88, 0, 0, 0, 4>> /\ pc = "closed")
    /\ [][ /\ (pc # "closed" /\ pc' = "closed") =>
                 /\ state' = "Disconnected"
                 /\ result' = result
                 /\ \/ sent' = Append(sent, <<88, 0, 0, 0, 4>>)
                    \/ sent' = sent /\ server = "closed"
           /\ pc = "closed" =>
                 /\ pc' = "closed"
                 /\ sent' = sent
                 /\ state' = state
                 /\ result' = result
         ]_vars

\* A Connection that new returned has been dropped and its Terminate is the
\* last frame on the socket.
C17_DroppedAfterReady ==
    /\ pc = "closed"
    /\ state = "Disconnected"
    /\ result.op = "new"
    /\ result.res = "Ok"
    /\ Len(sent) = 2
    /\ sent[2] = <<88, 0, 0, 0, 4>>

\* C18: once the drop of a prepared-statement handle is past its read, it has
\* completed normally, the connection is usable, and the frames Close('S',
\* name) and Sync were written one after the other.
C18_HandleDropCompletes ==
    (result.op = "drop_handle" /\ pc # "close_read") =>
        /\ result.res = "Ok"
        /\ pc = "idle"
        /\ \E i \in 1..(Len(sent) - 1) :
              /\ sent[i] = CloseMessage(83, result.msg)
              /\ sent[i + 1] = SyncMessage

\* C19: the counter is 0 until the first prepare; each call to prepare names
\* its statement with the decimal text of the counter's value (digits only, no
\* leading zero), writes that name in its Parse frame unless the write fails,
\* and adds one to the counter whether or not it succeeds; nothing else
\* changes the counter, so the Parse frames written and the handles held all
\* bear different names.
C19_SequentialNames ==
    /\ [](pc \in {"new", "startup_read", "startup_dispatch", "new_err"} =>
             query_number = 0)
    /\ [](\A i, j \in 1..Len(sent) :
             (i < j /\ sent[i][1] = 80 /\ sent[j][1] = 80) => sent[i] # sent[j])
    /\ [](\A i, j \in 1..Len(handles) : i < j => handles[i] # handles[j])
    /\ [][ /\ (requests' # requests /\ result'.op = "prepare") =>
                 /\ query_number' = query_number + 1
                 /\ IsDigits(result'.msg)
                 /\ DigitsValue(result'.msg) = query_number
                 /\ Len(result'.msg) = 1 \/ result'.msg[1] # 48
                 /\ \/ /\ result'.res = "Pending"
                       /\ \E sql \in Statements :
                             sent' = Append(sent, ParseMessage(result'.msg, sql, <<>>))
                    \/ /\ result'.err = "Io"
                       /\ sent' = sent
           /\ query_number' # query_number =>
                 /\ requests' # requests
                 /\ result'.op = "prepare"
         ]_vars

\* Two calls to prepare have written the names "0" and "1", and the caller
\* holds both handles.
C19_TwoStatementsNamed ==
    /\ query_number = 2
    /\ handles = << <<48>>, <<49>> >>
    /\ \E i, j \in 1..Len(sent) :
          /\ i < j
          /\ sent[i] = ParseMessage(<<48>>, <<113>>, <<>>)
          /\ sent[j] = ParseMessage(<<49>>, <<113>>, <<>>)

\* C20: no operation fails because the bytes it read end in the middle of a
\* frame (take_msg's "Input too short" and "Message too short").
C20_PartialFrameKept ==
    ~ ( /\ result.res = "Err"
        /\ result.err = "ProtocolError"
        /\ result.text \in {"Input too short", "Message too short"} )

\* C21: no operation fails because bytes follow a ReadyForQuery in the data
\* it read: neither simple_query ("Received data after ReadyForQuery") nor the
\* startup exchange ("Unexpected message after ReadyForQuery") reports them
\* as an error.
C21_BytesAfterReadyKept ==
    ~ ( /\ result.res = "Err"
        /\ result.text \in {"Received data after ReadyForQuery",
                            "Unexpected message after ReadyForQuery"} )

\* C22: take_msg applied repeatedly to a prefix of a concatenation of
\* well-formed frames hands out, in order, exactly the frames that are complete
\* in the prefix, each time with the rest of the input as remainder, and then
\* ends with its error; no frame holds bytes of a later one.
C22_CompleteFrames ==
    LET n == Len(call.input)
        complete == Cardinality({ j \in 1..Len(call.given) :
                                    Len(Flatten(SubSeq(call.given, 1, j))) <= n })
    IN  call.fn = "take_msg_loop" =>
          /\ call.stage \in {"framing", "need_more"}
          /\ Len(call.frames) <= complete
          /\ \A i \in 1..Len(call.frames) : call.frames[i] = call.given[i]
          /\ Flatten(call.frames) \o call.rest = call.input
          /\ call.stage = "need_more" => Len(call.frames) = complete

\* The buffer of test_take_msg followed by the first bytes of a third frame:
\* both frames were taken and the partial frame is what remains.
C22_TwoFramesThenPartial ==
    /\ call.fn = "take_msg_loop"
    /\ call.stage = "need_more"
    /\ call.frames = << <<69, 0, 0, 0, 5, 1>>,
                        <<72, 0, 0, 0, 12, 1, 2, 3, 4, 5, 6, 7, 8>> >>
    /\ call.rest = <<90, 0, 0>>

\* C23: one take_msg on n bytes whose bytes 1..5 hold the big-endian number L
\* fails exactly when n < 5 or n < 1 + L, and otherwise returns a frame of
\* exactly 1 + L bytes and a remainder that together are the input; the
\* outcome does not depend on the identifier byte.  (L from 2^31 up, first
\* length byte 128 or more, exceeds every n here.)
C23_SingleTakeMsg ==
    /\ [][ (call.stage = "framing" /\ call' # call) =>
             LET input == call.rest
                 n == Len(input)
                 L == ((input[2] * 256 + input[3]) * 256 + input[4]) * 256 + input[5]
                 fails == n < 5 \/ input[2] >= 128 \/ n < 1 + L
             IN  /\ call'.stage = "need_more" <=> fails
                 /\ call'.stage \in {"framing", "need_more"}
                 /\ call'.stage = "framing" =>
                       /\ Len(call'.frames) = Len(call.frames) + 1
                       /\ Len(call'.frames[Len(call'.frames)]) = 1 + L
                       /\ call'.frames[Len(call'.frames)] \o call'.rest = input
                 /\ call'.stage = "need_more" =>
                       call'.frames = call.frames /\ call'.rest = input
         ]_vars
    /\ [](call.stage = "framing" /\ call.rest # <<>> =>
            \A id \in {0, 82, 255} :
               /\ take_msg(<<id>> \o Tail(call.rest)).res = take_msg(call.rest).res
               /\ take_msg(<<id>> \o Tail(call.rest)).rest = take_msg(call.rest).rest)

\* An input with a length field of 1 under an identifier that is no message
\* type at all: a frame of two bytes was taken and the other bytes remain.
C23_SplitWithRemainder ==
    /\ call.fn = "take_msg"
    /\ call.input = <<255, 0, 0, 0, 1, 7, 0>>
    /\ call.frames = << <<255, 0>> >>
    /\ call.rest = <<0, 0, 1, 7, 0>>

\* C24: every frontend message is encoded as its identifier byte if it has
\* one, then a 4-byte big-endian length equal to the size of the body plus 4,
\* then the body; take_msg on the bytes of a message with an identifier hands
\* out the whole output as one frame with nothing remaining.
C24_EncodedFraming ==
    LET type == call.msg.type
        id == CASE type = "PasswordMessage" -> 112
                [] type = "Query" -> 81
                [] type = "ParseMessage" -> 80
                [] type = "BindMessage" -> 66
                [] type = "ExecuteMessage" -> 69
                [] type = "SyncMessage" -> 83
                [] type = "CloseMessage" -> 67
                [] type = "Terminate" -> 88
                [] OTHER -> -1
        bytes == call.input
        at == IF id = -1 THEN 0 ELSE 1
        field == ((bytes[at + 1] * 256 + bytes[at + 2]) * 256 + bytes[at + 3]) * 256
                 + bytes[at + 4]
        body == SubSeq(bytes, at + 5, Len(bytes))
    IN  (call.fn = "to_bytes" /\ call.stage # "encoding") =>
          /\ Len(bytes) >= at + 4
          /\ id # -1 => bytes[1] = id
          /\ field = Len(body) + 4
          /\ id # -1 =>
               /\ call.frames \in {<<>>, <<bytes>>}
               /\ call.frames = <<>> => (call.stage = "framing" /\ call.rest = bytes)
               /\ call.frames = <<bytes>> => call.rest = <<>>

\* A BindMessage with format codes and a parameter value went through
\* to_bytes and take_msg: one frame, the whole output, and then nothing.
C24_BindFramedWhole ==
    /\ call.fn = "to_bytes"
    /\ call.msg.type = "BindMessage"
    /\ call.msg.param_format_codes = <<1, 0>>
    /\ call.msg.param_values # <<>>
    /\ call.stage = "need_more"
    /\ call.frames = <<call.input>>
    /\ call.rest = <<>>

\* C25: an encoded StartupMessage has no identifier; after the length come
\* 00 03 00 00, "user" NUL user NUL, "database" NUL database NUL only if a
\* database is given, each parameter as name NUL value NUL in order, and one
\* final NUL.
C25_StartupLayout ==
    LET m == call.msg
        pair(i) == m.params[i][1] \o <<0>> \o m.params[i][2] \o <<0>>
        pairs == IF Len(m.params) = 0 THEN <<>>
                 ELSE IF Len(m.params) = 1 THEN pair(1)
                 ELSE pair(1) \o pair(2)
        body == <<0, 3, 0, 0>>
                \o <<117, 115, 101, 114, 0>> \o m.user \o <<0>>
                \o (IF m.database.some
                    THEN <<100, 97, 116, 97, 98, 97, 115, 101, 0>>
                         \o m.database.v \o <<0>>
                    ELSE <<>>)
                \o pairs \o <<0>>
    IN  (call.fn = "to_bytes" /\ call.stage # "encoding"
           /\ m.type = "StartupMessage") =>
          /\ Len(m.params) <= 2
          /\ call.input = <<0, 0, 0, Len(body) + 4>> \o body

\* The message of test_startup_message (user cliff, no database, two
\* parameters) is encoded in 45 bytes that end name NUL value NUL NUL.
C25_TheseusEncoded ==
    /\ call.fn = "to_bytes"
    /\ call.stage # "encoding"
    /\ call.msg = [type |-> "StartupMessage", user |-> Cliff, database |-> NoText,
                   params |-> TheseusParams]
    /\ Len(call.input) = 45
    /\ SubSeq(call.input, 1, 8) = <<0, 0, 0, 45, 0, 3, 0, 0>>
    /\ SubSeq(call.input, 38, 45) = <<108, 0, 115, 104, 105, 112, 0, 0>>

\* C26: PasswordMessage(hash) is 'p', the length, the hash and a NUL;
\* Query(sql) is 'Q', the length, the sql and a NUL; the length is the length
\* of the text plus 5.
C26_PasswordAndQueryLayout ==
    (call.fn = "to_bytes" /\ call.stage # "encoding") =>
       /\ call.msg.type = "PasswordMessage" =>
             call.input = <<112, 0, 0, 0, Len(call.msg.hash) + 5>>
                          \o call.msg.hash \o <<0>>
       /\ call.msg.type = "Query" =>
             call.input = <<81, 0, 0, 0, Len(call.msg.query) + 5>>
                          \o call.msg.query \o <<0>>

\* The messages of test_password_message and test_query_message are encoded
\* as the tests expect.
C26_OpenSesameEncoded ==
    /\ call.fn = "to_bytes"
    /\ call.stage # "encoding"
    /\ \/ /\ call.msg = [type |-> "PasswordMessage", hash |-> OpenSesame]
          /\ call.input = <<112, 0, 0, 0, 16>> \o OpenSesame \o <<0>>
       \/ /\ call.msg = [type |-> "Query", query |-> Select1]
          /\ call.input = <<81, 0, 0, 0, 13>> \o Select1 \o <<0>>

\* C27: for every known backend identifier, a frame whose body is one byte
\* shorter or one byte longer than a payload the identifier requires is
\* answered with a protocol error value: neither a decoded message nor a panic.
C27_WrongSizeRejected ==
    \A p \in ValidPayloads :
       \A body \in PayloadVariants(p[2]) \ {p[2]} :
          (call.stage = "decoded" /\ call.input = ServerFrame(p[1], body)) =>
              call.decoded.res = "err"

\* C28: a correctly framed message whose identifier byte is none of the known
\* backend identifiers decodes to Unknown(identifier, body), whatever the
\* byte and the body; never to an error.
C28_UnknownIdentifierKept ==
    (call.stage = "decoded"
       /\ call.input[1] \notin {82, 83, 75, 84, 68, 67, 90, 69, 78, 49, 50, 51, 73}) =>
        /\ call.decoded.res = "ok"
        /\ call.decoded.kind = "Unknown"
        /\ call.decoded.name = <<call.input[1]>>
        /\ call.decoded.data = SliceFrom(call.input, 5)

\* C29: each bodiless identifier with an empty body decodes to its own kind
\* ('1' ParseComplete, '2' BindComplete, '3' CloseComplete, 'n' NoData,
\* 's' PortalSuspended, 'I' EmptyQueryResponse), and each of them with a
\* non-empty body is rejected.
C29_BodilessKinds ==
    LET id == call.input[1]
        kind == CASE id = 49 -> "ParseComplete"
                  [] id = 50 -> "BindComplete"
                  [] id = 51 -> "CloseComplete"
                  [] id = 110 -> "NoData"
                  [] id = 115 -> "PortalSuspended"
                  [] id = 73 -> "EmptyQueryResponse"
    IN  (call.stage = "decoded" /\ id \in {49, 50, 51, 110, 115, 73}) =>
          IF Len(call.input) = 5
          THEN call.decoded.res = "ok" /\ call.decoded.kind = kind
          ELSE call.decoded.res = "err"

\* C30: an 'S' frame decodes to ParameterStatus(name, value) exactly when its
\* body is name NUL value NUL, with exactly two NULs and nothing after the
\* second; a body with fewer than two NULs or with any byte after the second
\* NUL is answered with a protocol error value.
C30_ParameterStatusShape ==
    LET body == SliceFrom(call.input, 5)
        nuls == { i \in 1..Len(body) : body[i] = 0 }
        shaped == Cardinality(nuls) = 2 /\ body[Len(body)] = 0
        first == CHOOSE i \in nuls : \A j \in nuls : i <= j
    IN  (call.stage = "decoded" /\ call.input[1] = 83) =>
          IF shaped
          THEN /\ call.decoded.res = "ok"
               /\ call.decoded.kind = "ParamStatus"
               /\ call.decoded.name = SubSeq(body, 1, first - 1)
               /\ call.decoded.value = SubSeq(body, first + 1, Len(body) - 1)
          ELSE call.decoded.res = "err"

\* C31: a 'D' frame with column count c decodes to a DataRow of exactly c
\* columns in wire order, a column of length -1 (FF FF FF FF) taking no value
\* bytes and any other column exactly its length; a body with a byte left
\* over is rejected.
C31_DataRowColumns ==
    \A cols \in SeqsUpTo(ColumnBytes, MaxColumns) :
       LET body == u16_to_be_bytes(Len(cols)) \o Flatten(cols)
       IN  /\ (call.stage = "decoded" /\ call.input = ServerFrame(68, body)) =>
                /\ call.decoded.res = "ok"
                /\ call.decoded.kind = "DataRow"
                /\ Len(call.decoded.cols) = Len(cols)
                /\ \A i \in 1..Len(cols) :
                      cols[i] # <<255, 255, 255, 255>> =>
                         call.decoded.cols[i] = SubSeq(cols[i], 5, Len(cols[i]))
           /\ (call.stage = "decoded"
                 /\ call.input = ServerFrame(68, body \o <<0>>)) =>
                call.decoded.res = "err"

\* C32: a 'T' frame decodes to a RowDescription of exactly count fields, each
\* a name, NUL and 18 bytes whose last two give the format (0 Text,
\* 1 Binary); any other format code, a body that is too short and a body not
\* fully consumed are answered with an error value, never with a panic.
C32_RowDescriptionFields ==
    /\ (call.stage = "decoded" /\ call.input[1] = 84) => call.decoded.res # "panic"
    /\ \A formats \in SeqsUpTo({0, 1, 2}, MaxColumns) :
          LET fields == [i \in 1..Len(formats) |-> FieldBytes(<<97>>, formats[i])]
              body == u16_to_be_bytes(Len(formats)) \o Flatten(fields)
          IN  (call.stage = "decoded" /\ call.input = ServerFrame(84, body)) =>
                 IF \A i \in 1..Len(formats) : formats[i] \in {0, 1}
                 THEN /\ call.decoded.res = "ok"
                      /\ call.decoded.kind = "RowDescription"
                      /\ call.decoded.fields =
                            [i \in 1..Len(formats) |->
                               [name |-> <<97>>,
                                format |-> IF formats[i] = 0 THEN "Text"
                                           ELSE "Binary"]]
                 ELSE call.decoded.res = "err"

\* C33: the body of an ErrorResponse or NoticeResponse is decoded if and only
\* if M, C and at least one of S and V are present; a body without M,
\* without C or without both S and V is answered with an error value, and a
\* body with V and no S is accepted.
C33_NoticePresence ==
    (call.stage = "decoded" /\ call.input[1] \in {69, 78}) =>
       \A s \in OptField(83, Spellings), v \in OptField(86, Spellings),
          c \in OptField(67, {<<52>>}), m \in OptField(77, {<<109>>}) :
          call.input = ServerFrame(call.input[1], s \o v \o c \o m \o <<0>>) =>
             IF m # <<>> /\ c # <<>> /\ (s # <<>> \/ v # <<>>)
             THEN call.decoded.res = "ok"
             ELSE call.decoded.res = "err"

\* C34: a notice body with no zero terminator, with a field value that has
\* no NUL, or with any byte after the zero terminator is answered with an
\* error value, never decoded and never a panic.
C34_NoticeTermination ==
    (call.stage = "decoded" /\ call.input[1] \in {69, 78}) =>
       \A s \in OptField(83, Spellings), v \in OptField(86, Spellings),
          c \in OptField(67, {<<52>>}), m \in OptField(77, {<<109>>}),
          end \in NoticeEnds \ {<<0>>} :
          call.input = ServerFrame(call.input[1], s \o v \o c \o m \o end) =>
             call.decoded.res = "err"

\* C35: the severity of a decoded notice body is that of field V when V is
\* present and otherwise that of field S: the severity of a known spelling,
\* None for any other.
C35_SeverityFromVElseS ==
    (call.stage = "decoded" /\ call.input[1] \in {69, 78}) =>
       \A s \in Spellings, v \in Spellings \cup {<<>>} :
          call.input = ServerFrame(call.input[1],
                          <<83>> \o s \o <<0>>
                          \o (IF v = <<>> THEN <<>> ELSE <<86>> \o v \o <<0>>)
                          \o <<67, 52, 0, 77, 109, 0, 0>>) =>
             /\ call.decoded.res = "ok"
             /\ call.decoded.notice.severity =
                   Severity_new(IF v = <<>> THEN s ELSE v)

\* C36: when simple_query returns Ok, its rows are exactly the DataRow
\* messages of the query's response, one row per DataRow in arrival order:
\* as many rows as DataRows were dispatched, each with the columns of the
\* frame, and no DataRow of the response left unread on the socket.
C36_RowsAreTheResponse ==
    (pc = "idle" /\ result.op = "simple_query" /\ result.res = "Ok") =>
       /\ Len(result.rows) = Cardinality({ i \in 1..Len(seen) : seen[i] = "DataRow" })
       /\ \A i \in 1..Len(result.rows) : result.rows[i] = << <<120>> >>
       /\ ~ \E i \in 1..Len(wire) :
               /\ i + Len(DataRowFrame) - 1 <= Len(wire)
               /\ SubSeq(wire, i, i + Len(DataRowFrame) - 1) = DataRowFrame

C38_MessageAfterReadyFails ==
    /\ [][ (pc = "startup_dispatch" /\ state = "ReadyForQuery"
              /\ message_queue # <<>> /\ message_queue' # message_queue) =>
             /\ pc' = "new_err"
             /\ state' = "ReadyForQuery"
             /\ result'.op = "new"
             /\ result'.res = "Err"
             /\ result'.text = "Unexpected message after ReadyForQuery"
         ]_vars
    /\ []((pc = "new_err" /\ result.text = "Unexpected message after ReadyForQuery") =>
             /\ state = "ReadyForQuery"
             /\ \E i \in 1..(Len(seen) - 1) : seen[i] = "ReadyForQuery")
    /\ []((result.op = "new" /\ result.res = "Ok") =>
             /\ message_queue = <<>>
             /\ seen # <<>>
             /\ seen[Len(seen)] = "ReadyForQuery")

\* new is failing on the NoticeResponse that came behind the ReadyForQuery,
\* with the state already ReadyForQuery.
C38_FailedBehindReady ==
    /\ pc = "new_err"
    /\ state = "ReadyForQuery"
    /\ result.text = "Unexpected message after ReadyForQuery"
    /\ result.at = "NoticeResponse"
    /\ seen[Len(seen) - 1] = "ReadyForQuery"

\* C39: every frame take_msg hands out is at least 5 bytes long, so
\* from_slice applied to it stays inside the frame when it reads bytes 1..5
\* and splits off the header.
C39_FrameHasHeader ==
    \A i \in 1..Len(call.frames) :
       /\ Len(call.frames[i]) >= 5
       /\ InRange(call.frames[i], 1, 5)

====
